---- MODULE Spec2Model ----
(***************************************************************************)
(* The in-memory vector index of the retrieval pipeline (VectorStore in    *)
(* rag/services/vector_store.py), its snapshot file, and the orchestrator  *)
(* operations that drive it (RAGService in rag/services/rag_service.py).   *)
(*                                                                         *)
(* Positions are 0-based as in the source; the TLA+ sequences holding the  *)
(* records and vectors are 1-based, so position i is element i + 1.        *)
(***************************************************************************)
EXTENDS Integers, Sequences, FiniteSets, TLC

VARIABLES
    documents,        \* VectorStore.documents: the stored records
    embeddings,       \* VectorStore.embeddings: the stored vectors
    doc_id_to_index,  \* VectorStore.doc_id_to_index: chunk_id -> position
    initialized,      \* VectorStore.initialized
    disk,             \* the snapshot file at VectorStore.index_path
    last              \* the call made last and how it ended; the calls in
                      \* flight and their positions where calls interleave

vars == <<documents, embeddings, doc_id_to_index, initialized, disk, last>>

(***************************************************************************)
(* Bounds of the model.                                                    *)
(***************************************************************************)
\* largest number of records the index holds
MaxDocs == 2
\* longest record list and vector list handed to create_index
MaxCreate == 2

(***************************************************************************)
(* Inputs.  Chunk ids have the form <doc_id>_chunk_<n> (_create_chunk).    *)
(***************************************************************************)
ChunkId(doc_id, chunk_index) == doc_id \o "_chunk_" \o ToString(chunk_index)

Chunk(doc_id, chunk_index, text) ==
    [chunk_id |-> ChunkId(doc_id, chunk_index), doc_id |-> doc_id, text |-> text]

\* the vectors callers hand to the index; every vector of the model has an
\* integer norm, so that the floating-point arithmetic of _cosine_similarity
\* is exact on it
Vectors == { <<1, 0>>, <<0, 1>> }

\* the (record, vector) pairs callers hand to the index: two versions of one
\* chunk and a second chunk of the same document, each with either vector, and
\* the second chunk with a vector of another dimension
Inputs ==
    ({ Chunk("d1", 0, "x"), Chunk("d1", 0, "y"), Chunk("d1", 1, "x") } \X Vectors)
    \cup { <<Chunk("d1", 1, "x"), <<1>>>> }

\* the smaller inputs of the specifications that also keep the snapshot file:
\* a chunk with either vector and a record that carries no chunk_id
StoreInputs ==
    { <<Chunk("d1", 0, "x"), <<1, 0>>>>, <<Chunk("d1", 0, "x"), <<0, 1>>>>,
      <<[doc_id |-> "d1", text |-> "x"], <<1, 0>>>> }

\* the inputs of the specification in which snapshot files get damaged
DamagedInputs ==
    { <<Chunk("d1", 0, "x"), <<1, 0>>>>, <<[doc_id |-> "d1", text |-> "x"], <<1, 0>>>> }

\* the ids delete calls name: the chunk ids and the document id
DeleteKeys == { ChunkId("d1", 0), ChunkId("d1", 1), "d1" }

DocIds == {"d1"}

\* the query vectors of search
Queries == { <<1, 0>>, <<3, 4>>, <<-1, 0>>, <<0, 0>>, <<1>> }

\* the record list and the vector list of a list of (record, vector) pairs
RecordsOf(pairs) == [i \in 1..Len(pairs) |-> pairs[i][1]]

VectorsOf(pairs) == [i \in 1..Len(pairs) |-> pairs[i][2]]

\* the argument pairs of create_index over the inputs P: lists of equal length
\* up to n, and a list of one element with an empty list
CreateArgs(P, n) ==
    { <<RecordsOf(pairs), VectorsOf(pairs)>> :
         pairs \in UNION { [1..m -> P] : m \in 0..n } }
    \cup { <<<<pair[1]>>, <<>>>> : pair \in P }
    \cup { <<<<>>, <<pair[2]>>>> : pair \in P }

(***************************************************************************)
(* create_index / add_document: the key of a record.                       *)
(***************************************************************************)
\* doc.get("chunk_id") or doc.get("doc_id", f"doc_{i}")
Key(doc, i) ==
    IF "chunk_id" \in DOMAIN doc /\ doc.chunk_id # ""
    THEN doc.chunk_id
    ELSE IF "doc_id" \in DOMAIN doc THEN doc.doc_id
         ELSE "doc_" \o ToString(i)

\* d[key] = value on a dict
DictSet(d, key, value) ==
    [k \in DOMAIN d \cup {key} |-> IF k = key THEN value ELSE d[k]]

EmptyDict == [k \in {} |-> 0]

\* the loop of create_index over enumerate(documents), from position i on
RECURSIVE BuildMap(_, _, _)
BuildMap(docs, i, map) ==
    IF i >= Len(docs) THEN map
    ELSE BuildMap(docs, i + 1, DictSet(map, Key(docs[i + 1], i), i))

\* del lst[index]
DelAt(lst, index) ==
    [j \in 1..(Len(lst) - 1) |-> IF j <= index THEN lst[j] ELSE lst[j + 1]]

\* lst[index] = value
SetAt(lst, index, value) == [lst EXCEPT ![index + 1] = value]

NoFile ==
    [exists |-> FALSE, readable |-> FALSE, keys |-> {},
     documents |-> <<>>, embeddings |-> <<>>, doc_id_to_index |-> EmptyDict,
     metadata |-> [document_count |-> 0, embedding_dimensions |-> 0]]

\* the last call: its name, the id it named ("" when it names none) and how
\* it ended: the value returned, or the exception raised
Call(op, arg, ret) == [op |-> op, arg |-> arg, ret |-> ret]

Init ==
    /\ documents = <<>>
    /\ embeddings = <<>>
    /\ doc_id_to_index = EmptyDict
    /\ initialized = FALSE
    /\ disk = NoFile
    /\ last = Call("__init__", "", "None")

\* VectorStore.create_index
create_index(docs, embs) ==
    IF Len(docs) # Len(embs)
    THEN /\ last' = Call("create_index", "", "ValueError")
         /\ UNCHANGED <<documents, embeddings, doc_id_to_index, initialized, disk>>
    ELSE /\ documents' = docs
         /\ embeddings' = embs
         /\ doc_id_to_index' = BuildMap(docs, 0, EmptyDict)
         /\ initialized' = TRUE
         /\ last' = Call("create_index", "", "None")
         /\ UNCHANGED disk

\* add_document on a chunk_id the lookup holds: record and vector are written
\* at the position the lookup gives
UpdateRecord(document, embedding, chunk_id) ==
    LET index == doc_id_to_index[chunk_id] IN
    IF index >= Len(documents)
    THEN \* self.documents[index] = document raises
         /\ last' = Call("add_document", chunk_id, "IndexError")
         /\ UNCHANGED <<documents, embeddings, doc_id_to_index, initialized, disk>>
    ELSE IF index >= Len(embeddings)
    THEN \* self.embeddings[index] = embedding raises
         /\ documents' = SetAt(documents, index, document)
         /\ last' = Call("add_document", chunk_id, "IndexError")
         /\ UNCHANGED <<embeddings, doc_id_to_index, initialized, disk>>
    ELSE /\ documents' = SetAt(documents, index, document)
         /\ embeddings' = SetAt(embeddings, index, embedding)
         /\ initialized' = TRUE
         /\ last' = Call("add_document", chunk_id, "None")
         /\ UNCHANGED <<doc_id_to_index, disk>>

\* add_document on a chunk_id the lookup does not hold: record and vector are
\* appended and the new position entered in the lookup
AppendRecord(document, embedding, chunk_id) ==
    LET index == Len(documents) IN
    /\ documents' = Append(documents, document)
    /\ embeddings' = Append(embeddings, embedding)
    /\ doc_id_to_index' = DictSet(doc_id_to_index, chunk_id, index)
    /\ initialized' = TRUE
    /\ last' = Call("add_document", chunk_id, "None")
    /\ UNCHANGED disk

\* add_document without the test for an existing chunk_id
add_document_append(document, embedding) ==
    AppendRecord(document, embedding, Key(document, Len(documents)))

\* VectorStore.add_document
add_document(document, embedding) ==
    LET chunk_id == Key(document, Len(documents)) IN
    IF chunk_id \in DOMAIN doc_id_to_index
    THEN UpdateRecord(document, embedding, chunk_id)
    ELSE AppendRecord(document, embedding, chunk_id)

\* a delete_document that leaves the positions behind index as they were
ShiftDown_keep_positions(map, index) == map

\* the loop of delete_document that rewrites the positions behind index
ShiftDown(map, index) ==
    [k \in DOMAIN map |-> IF map[k] > index THEN map[k] - 1 ELSE map[k]]

\* del d[key]
DictDel(d, key) == [k \in DOMAIN d \ {key} |-> d[k]]

\* delete_document on an id the lookup holds: record, vector and lookup entry
\* are removed and the positions behind them moved down
RemoveRecord(doc_id) ==
    LET index == doc_id_to_index[doc_id] IN
    IF index >= Len(documents)
    THEN \* del self.documents[index] raises
         /\ last' = Call("delete_document", doc_id, "IndexError")
         /\ UNCHANGED <<documents, embeddings, doc_id_to_index, initialized, disk>>
    ELSE IF index >= Len(embeddings)
    THEN \* del self.embeddings[index] raises
         /\ documents' = DelAt(documents, index)
         /\ last' = Call("delete_document", doc_id, "IndexError")
         /\ UNCHANGED <<embeddings, doc_id_to_index, initialized, disk>>
    ELSE /\ documents' = DelAt(documents, index)
         /\ embeddings' = DelAt(embeddings, index)
         /\ doc_id_to_index' = ShiftDown(DictDel(doc_id_to_index, doc_id), index)
         /\ last' = Call("delete_document", doc_id, "True")
         /\ UNCHANGED <<initialized, disk>>

\* delete_document that reports a removal whether or not it made one
delete_document_always_true(doc_id) ==
    IF doc_id \notin DOMAIN doc_id_to_index
    THEN /\ last' = Call("delete_document", doc_id, "True")
         /\ UNCHANGED <<documents, embeddings, doc_id_to_index, initialized, disk>>
    ELSE RemoveRecord(doc_id)

\* VectorStore.delete_document
delete_document(doc_id) ==
    IF doc_id \notin DOMAIN doc_id_to_index
    THEN /\ last' = Call("delete_document", doc_id, "False")
         /\ UNCHANGED <<documents, embeddings, doc_id_to_index, initialized, disk>>
    ELSE RemoveRecord(doc_id)

\* the keys save_index writes into index_data
SnapshotKeys == {"documents", "embeddings", "doc_id_to_index", "metadata"}

\* index_data of save_index, as pickle.dump writes it
Snapshot(docs, embs, map) ==
    [exists |-> TRUE, readable |-> TRUE, keys |-> SnapshotKeys,
     documents |-> docs, embeddings |-> embs, doc_id_to_index |-> map,
     metadata |-> [document_count |-> Len(docs),
                   embedding_dimensions |-> IF embs # <<>> THEN Len(embs[1]) ELSE 0]]

\* save_index that writes only where no file is yet
SavedFile_keep_existing(file, docs, embs, map, init) ==
    IF ~init \/ file.exists THEN file ELSE Snapshot(docs, embs, map)

\* what save_index leaves at index_path
SavedFile(file, docs, embs, map, init) ==
    IF ~init THEN file ELSE Snapshot(docs, embs, map)

\* VectorStore.save_index
save_index ==
    /\ disk' = SavedFile(disk, documents, embeddings, doc_id_to_index, initialized)
    /\ last' = Call("save_index", "", "None")
    /\ UNCHANGED <<documents, embeddings, doc_id_to_index, initialized>>

\* how load_index ends on a file: "missing", "True", or the exception it catches
LoadOutcome(file) ==
    IF ~file.exists THEN "missing"
    ELSE IF ~file.readable THEN "UnpicklingError"
    ELSE IF ~(SnapshotKeys \ {"metadata"} \subseteq file.keys) THEN "KeyError"
    ELSE "True"

\* the index load_index leaves behind, as <<documents, embeddings,
\* doc_id_to_index, initialized>>: the assignments made before it returns or
\* before the first exception
Loaded(file, docs, embs, map, init) ==
    IF ~file.exists \/ ~file.readable \/ "documents" \notin file.keys
    THEN <<docs, embs, map, init>>
    ELSE IF "embeddings" \notin file.keys
    THEN <<file.documents, embs, map, init>>
    ELSE IF "doc_id_to_index" \notin file.keys
    THEN <<file.documents, file.embeddings, map, init>>
    ELSE <<file.documents, file.embeddings, file.doc_id_to_index, TRUE>>

\* VectorStore.load_index
load_index ==
    LET new == Loaded(disk, documents, embeddings, doc_id_to_index, initialized)
        how == LoadOutcome(disk)
    IN /\ documents' = new[1]
       /\ embeddings' = new[2]
       /\ doc_id_to_index' = new[3]
       /\ initialized' = new[4]
       /\ last' = Call("load_index", "", IF how = "True" THEN "True" ELSE "False")
       /\ UNCHANGED disk

\* VectorStore.delete_index
delete_index ==
    /\ documents' = <<>>
    /\ embeddings' = <<>>
    /\ doc_id_to_index' = EmptyDict
    /\ initialized' = FALSE
    /\ disk' = NoFile
    /\ last' = Call("delete_index", "", "None")

\* VectorStore.__init__ in a new process: the file of the last one is still there
VectorStore_init ==
    /\ documents' = <<>>
    /\ embeddings' = <<>>
    /\ doc_id_to_index' = EmptyDict
    /\ initialized' = FALSE
    /\ last' = Call("__init__", "", "None")
    /\ UNCHANGED disk

\* RAGService.delete_document: DatabaseManager.delete_document returns None,
\* so success is vector_deleted; an exception is caught and False returned
RAGService_delete_document(doc_id) ==
    LET vector_deleted == doc_id \in DOMAIN doc_id_to_index
        index == doc_id_to_index[doc_id]
    IN
    IF ~vector_deleted
    THEN /\ last' = Call("RAGService.delete_document", doc_id, "False")
         /\ UNCHANGED <<documents, embeddings, doc_id_to_index, initialized, disk>>
    ELSE IF index >= Len(documents)
    THEN /\ last' = Call("RAGService.delete_document", doc_id, "False")
         /\ UNCHANGED <<documents, embeddings, doc_id_to_index, initialized, disk>>
    ELSE IF index >= Len(embeddings)
    THEN /\ documents' = DelAt(documents, index)
         /\ last' = Call("RAGService.delete_document", doc_id, "False")
         /\ UNCHANGED <<embeddings, doc_id_to_index, initialized, disk>>
    ELSE /\ documents' = DelAt(documents, index)
         /\ embeddings' = DelAt(embeddings, index)
         /\ doc_id_to_index' = ShiftDown(DictDel(doc_id_to_index, doc_id), index)
         /\ disk' = SavedFile(disk, documents', embeddings', doc_id_to_index', initialized)
         /\ last' = Call("RAGService.delete_document", doc_id, "True")
         /\ UNCHANGED initialized

(***************************************************************************)
(* search.  A similarity is held as an integer number of 1/SimScale, where *)
(* SimScale is a multiple of every product of two norms of the model's     *)
(* vectors: on vectors of integer norm the quotient dot / (norm1 * norm2)  *)
(* is the correctly rounded value of a multiple of 1/SimScale, so that two *)
(* similarities compare as their integers do.                              *)
(***************************************************************************)
RECURSIVE Dot(_, _)
Dot(v1, v2) ==
    IF v1 = <<>> THEN 0 ELSE v1[1] * v2[1] + Dot(Tail(v1), Tail(v2))

\* np.linalg.norm on a vector whose norm is an integer
Norm(v) == LET squares == Dot(v, v) IN CHOOSE n \in 0..squares : n * n = squares

RECURSIVE Product(_)
Product(S) ==
    IF S = {} THEN 1 ELSE LET x == CHOOSE y \in S : TRUE IN x * Product(S \ {x})

SimScale ==
    LET norms == { Norm(v) : v \in Vectors \cup Queries } \ {0}
    IN Product(norms) * Product(norms)

\* np.clip(x, lo, hi)
Clip(x, lo, hi) == IF x < lo THEN lo ELSE IF x > hi THEN hi ELSE x

\* VectorStore._cosine_similarity
cosine_similarity(vec1, vec2) ==
    IF Len(vec1) # Len(vec2) THEN 0
    ELSE LET dot_product == Dot(vec1, vec2)
             norm1 == Norm(vec1)
             norm2 == Norm(vec2)
         IN IF norm1 = 0 \/ norm2 = 0 THEN 0
            ELSE Clip((dot_product * SimScale) \div (norm1 * norm2),
                      -SimScale, SimScale)

\* the similarity_threshold argument of search: None, or a number
NoFloor == [given |-> FALSE]

Floor(x) == [given |-> TRUE, value |-> x]

\* a sort that is not stable: x goes before the entries of its own similarity
InsertDesc_unstable(sorted, x) ==
    LET n == Cardinality({ j \in 1..Len(sorted) : sorted[j][1] > x[1] })
    IN SubSeq(sorted, 1, n) \o <<x>> \o SubSeq(sorted, n + 1, Len(sorted))

\* where list.sort(key = similarity, reverse = True) puts x in a list already
\* sorted: behind every entry whose similarity is at least x's (the sort is
\* stable, also when reversed)
InsertDesc(sorted, x) ==
    LET n == Cardinality({ j \in 1..Len(sorted) : sorted[j][1] >= x[1] })
    IN SubSeq(sorted, 1, n) \o <<x>> \o SubSeq(sorted, n + 1, Len(sorted))

\* similarities.sort(key=lambda x: x[0], reverse=True)
RECURSIVE SortDesc(_)
SortDesc(similarities) ==
    IF similarities = <<>> THEN <<>>
    ELSE LET n == Len(similarities)
         IN InsertDesc(SortDesc(SubSeq(similarities, 1, n - 1)), similarities[n])

\* lst[:k]
SliceTo(lst, k) ==
    IF k >= 0 THEN SubSeq(lst, 1, IF k < Len(lst) THEN k ELSE Len(lst))
    ELSE SubSeq(lst, 1, IF Len(lst) + k > 0 THEN Len(lst) + k ELSE 0)

\* the (similarity, index) pairs search turns into results, in result order
Selected(embs, init, query_embedding, top_k, similarity_threshold) ==
    IF ~init \/ embs = <<>> THEN <<>>
    ELSE LET threshold == IF similarity_threshold.given
                          THEN similarity_threshold.value ELSE 0
             similarities ==
                 [i \in 1..Len(embs) |->
                     <<cosine_similarity(query_embedding, embs[i]), i - 1>>]
         IN SelectSeq(SliceTo(SortDesc(similarities), top_k),
                      LAMBDA pair : pair[1] >= threshold)

\* search raises IndexError at self.documents[index] when a selected position
\* holds a vector and no record
SearchRaises(docs, embs, init, query_embedding, top_k, similarity_threshold) ==
    LET sel == Selected(embs, init, query_embedding, top_k, similarity_threshold)
    IN \E j \in 1..Len(sel) : sel[j][2] >= Len(docs)

\* VectorStore.search on an index holding docs, embs and the flag init: the
\* results, each the record with its vector_score
SearchIn(docs, embs, init, query_embedding, top_k, similarity_threshold) ==
    LET sel == Selected(embs, init, query_embedding, top_k, similarity_threshold)
    IN [j \in 1..Len(sel) |->
           [doc |-> docs[sel[j][2] + 1], vector_score |-> sel[j][1]]]

\* VectorStore.search on the index
search(query_embedding, top_k, similarity_threshold) ==
    SearchIn(documents, embeddings, initialized,
             query_embedding, top_k, similarity_threshold)

\* VectorStore.get_stats()["document_count"]
DocumentCount(docs, init) == IF ~init THEN 0 ELSE Len(docs)

\* the arguments of search the properties range over
TopKs == 0..(MaxDocs + 1)

Floors == { NoFloor, Floor(-SimScale), Floor((SimScale * 4) \div 5) }

\* a snapshot file that was not written completely or was damaged afterwards:
\* pickle.load fails on it, or it yields a dict that lacks one of the keys
DamageSnapshot ==
    /\ disk.exists /\ disk.readable /\ disk.keys = SnapshotKeys
    /\ \/ disk' = [disk EXCEPT !.readable = FALSE, !.keys = {}]
       \/ \E key \in SnapshotKeys \ {"metadata"} :
             disk' = [disk EXCEPT !.keys = SnapshotKeys \ {key}]
    /\ last' = Call("damage", "", "None")
    /\ UNCHANGED <<documents, embeddings, doc_id_to_index, initialized>>

\* the calls on the index that touch no file but to remove it, on the inputs P
IndexCalls(P) ==
    \/ \E args \in CreateArgs(P, MaxCreate) : create_index(args[1], args[2])
    \/ \E pair \in P :
          /\ \/ Len(documents) < MaxDocs /\ Len(embeddings) < MaxDocs
             \/ Key(pair[1], Len(documents)) \in DOMAIN doc_id_to_index
          /\ add_document(pair[1], pair[2])
    \/ \E doc_id \in DeleteKeys : delete_document(doc_id)
    \/ delete_index

\* the calls that read or write the snapshot file, and the orchestrator's
StoreCalls ==
    \/ save_index
    \/ load_index
    \/ VectorStore_init
    \/ \E doc_id \in DocIds : RAGService_delete_document(doc_id)

\* the index in memory
Next == IndexCalls(Inputs)

Spec == Init /\ [][Next]_vars

\* the index, its snapshot file and the orchestrator
NextStore == IndexCalls(StoreInputs) \/ StoreCalls

SpecStore == Init /\ [][NextStore]_vars

\* the same with snapshot files that can be damaged
NextDamaged == IndexCalls(DamagedInputs) \/ StoreCalls \/ DamageSnapshot

SpecDamaged == Init /\ [][NextDamaged]_vars

(***************************************************************************)
(* Properties.                                                             *)
(***************************************************************************)
\* the chunk_id a record or a search result carries ("" when it has none)
ChunkIdOf(doc) == IF "chunk_id" \in DOMAIN doc THEN doc.chunk_id ELSE ""

\* the chunk ids _create_chunk derives from a document id
ChunkIdsOf(doc_id) == { ChunkId(doc_id, n) : n \in 0..MaxDocs }

\* C1: after any successful mutating call the number of stored records, the
\* number of stored vectors and the number of entries of the lookup are equal.
C1_LengthsEqual ==
    last.ret \in {"None", "True"} =>
        /\ Len(documents) = Len(embeddings)
        /\ Len(documents) = Cardinality(DOMAIN doc_id_to_index)

\* C2: once delete_document(id) has returned, no search, for any query vector,
\* k and floor, returns a result whose chunk_id is id.
C2_DeletedNeverFound ==
    last.op = "delete_document" /\ last.ret \in {"True", "False"} =>
        \A q \in Queries, k \in TopKs, f \in Floors :
            LET results == search(q, k, f)
            IN \A j \in 1..Len(results) : ChunkIdOf(results[j].doc) # last.arg

\* C3: once RAGService.delete_document(doc_id) has returned, no search returns
\* a chunk whose chunk_id has the form doc_id_chunk_n.
C3_DocumentChunksRemoved ==
    last.op = "RAGService.delete_document" =>
        \A q \in Queries, k \in TopKs, f \in Floors :
            LET results == search(q, k, f)
            IN \A j \in 1..Len(results) :
                  ChunkIdOf(results[j].doc) \notin ChunkIdsOf(last.arg)

\* C4: a mutating call that fails (create_index raising on a count mismatch,
\* load_index returning False) leaves records, vectors and lookup as they were.
C4_FailedCallLeavesIndex ==
    [][(\/ last'.op = "create_index" /\ last'.ret = "ValueError"
        \/ last'.op = "load_index" /\ last'.ret = "False")
       => UNCHANGED <<documents, embeddings, doc_id_to_index>>]_vars

\* C5: all vectors the index holds have the same dimension.
C5_OneDimension ==
    \A i, j \in 1..Len(embeddings) : Len(embeddings[i]) = Len(embeddings[j])

\* C6: for every query vector, k >= 0 and floor, search returns at most k
\* results, in order of non-increasing similarity, and results of equal
\* similarity in the order of their positions in the index.
C6_SearchOrdered ==
    \A q \in Queries, k \in TopKs, f \in Floors :
        LET sel == Selected(embeddings, initialized, q, k, f)
            results == search(q, k, f)
        IN /\ ~SearchRaises(documents, embeddings, initialized, q, k, f)
           /\ Len(results) <= k
           /\ \A i, j \in 1..Len(results) :
                 i < j =>
                    /\ results[i].vector_score >= results[j].vector_score
                    /\ results[i].vector_score = results[j].vector_score
                          => sel[i][2] < sel[j][2]

\* C6 happens: a search returns two different records of equal similarity
C6_Witness ==
    \E q \in Queries :
        LET results == search(q, MaxDocs, NoFloor)
        IN /\ Len(results) >= 2
           /\ results[1].vector_score = results[2].vector_score
           /\ results[1].doc # results[2].doc

FreshLoaded ==
    Loaded(SavedFile(disk, documents, embeddings, doc_id_to_index, initialized),
           <<>>, <<>>, EmptyDict, FALSE)

\* the fresh index answers every search as this one does
RoundTrip ==
    LET fresh == FreshLoaded
    IN \A q \in Queries, k \in TopKs, f \in Floors :
          SearchIn(fresh[1], fresh[2], fresh[4], q, k, f) = search(q, k, f)

C9_LoadDistinguishes ==
    last.op = "load_index" =>
        /\ ~disk.exists => last.ret = "False"
        /\ disk.exists /\ LoadOutcome(disk) # "True" => last.ret # "False"

\* C10: delete_document(id) returns True exactly when id is in the lookup
\* before the call; when it is not, it returns False and leaves records,
\* vectors, lookup, the initialized flag and the count of get_stats unchanged.
C10_DeleteReturn ==
    [][\A doc_id \in DeleteKeys :
          delete_document(doc_id) =>
             /\ last'.ret = "True" <=> doc_id \in DOMAIN doc_id_to_index
             /\ doc_id \notin DOMAIN doc_id_to_index =>
                   /\ last'.ret = "False"
                   /\ UNCHANGED <<documents, embeddings, doc_id_to_index, initialized>>
                   /\ DocumentCount(documents', initialized')
                         = DocumentCount(documents, initialized)]_vars

\* C10 happens: delete_document of an id the lookup does not hold has returned
\* False on an index that holds records
C10_Witness ==
    /\ last.op = "delete_document" /\ last.ret = "False"
    /\ documents # <<>>
    /\ last.arg \notin DOMAIN doc_id_to_index

(***************************************************************************)
(* Texts.  A text is a sequence of characters, so that str.strip, len and  *)
(* str.split are computed on it as Python computes them.                   *)
(***************************************************************************)
\* the characters str.strip() removes that the model's texts contain
Whitespace == { " ", "\n" }

\* s.lstrip()
RECURSIVE LStrip(_)
LStrip(s) == IF s # <<>> /\ Head(s) \in Whitespace THEN LStrip(Tail(s)) ELSE s

\* s.rstrip()
RECURSIVE RStrip(_)
RStrip(s) ==
    IF s # <<>> /\ s[Len(s)] \in Whitespace THEN RStrip(SubSeq(s, 1, Len(s) - 1))
    ELSE s

\* s.strip()
Strip(s) == RStrip(LStrip(s))

(***************************************************************************)
(* EmbeddingService: one request to the gateway and what embed_texts makes *)
(* of its answer.  An answer is the failure of the request (no connection, *)
(* a status other than 200, a body without output.embeddings) or the list  *)
(* of items of a body; an item carries an embedding or lacks the field.    *)
(***************************************************************************)
\* config.EMBEDDING_DIMENSIONS, with the dimension of the model's vectors
dimensions == Len(CHOOSE v \in Vectors : TRUE)

\* [0.0] * self.dimensions
zero_embedding == [i \in 1..dimensions |-> 0]

\* the answers of the gateway to one request
ClientError == [status |-> 0]

ApiError == [status |-> 500]

Malformed == [status |-> 200, has_output |-> FALSE]

Answer(items) == [status |-> 200, has_output |-> TRUE, embeddings |-> items]

Item(v) == [embedding |-> v]

NoEmbeddingItem == [text_index |-> 0]

\* EmbeddingService._embed_batch raises: aiohttp.ClientError, a status other
\* than 200, or _extract_embeddings raising on a body without output.embeddings
EmbedBatchRaises(response) ==
    \/ response.status # 200
    \/ ~response.has_output

\* EmbeddingService._extract_embeddings on a body that has output.embeddings
extract_embeddings(response) ==
    [j \in 1..Len(response.embeddings) |->
        IF "embedding" \in DOMAIN response.embeddings[j]
        THEN response.embeddings[j].embedding
        ELSE zero_embedding]

\* a failed batch adds nothing
BatchEmbeddings_skip_failed(batch, response) ==
    IF EmbedBatchRaises(response) THEN <<>> ELSE extract_embeddings(response)

\* one round of the loop of embed_texts: what the batch adds to all_embeddings
BatchEmbeddings(batch, response) ==
    IF EmbedBatchRaises(response)
    THEN [j \in 1..Len(batch) |-> zero_embedding]
    ELSE extract_embeddings(response)

\* EmbeddingService.embed_query: embed_texts([query]) and its first vector
embed_query(query, response) ==
    LET embs == BatchEmbeddings(<<query>>, response)
    IN IF embs # <<>> THEN embs[1] ELSE <<>>

\* EmbeddingService.calculate_similarity, in 1/SimScale; it raises ValueError
\* on vectors of different length
SimilarityRaises(embedding1, embedding2) == Len(embedding1) # Len(embedding2)

calculate_similarity(embedding1, embedding2) ==
    LET dot_product == Dot(embedding1, embedding2)
        norm1 == Norm(embedding1)
        norm2 == Norm(embedding2)
    IN IF norm1 = 0 \/ norm2 = 0 THEN 0
       ELSE Clip((dot_product * SimScale) \div (norm1 * norm2), -SimScale, SimScale)

(***************************************************************************)
(* RerankService.  A score is held as an integer number of millionths, a   *)
(* combined score as an integer number of ten-millionths.                  *)
(***************************************************************************)
\* an optional int argument: None, or a number
NoTopK == [given |-> FALSE]

TopK(n) == [given |-> TRUE, value |-> n]

\* the truth value Python gives an optional int: None and 0 are false
Truthy(opt) == opt.given /\ opt.value # 0

\* documents[:top_k] if top_k else documents
TopKOrAll(docs, top_k) == IF Truthy(top_k) THEN SliceTo(docs, top_k.value) ELSE docs

\* RerankService._enhance_score: 1 / (1 + exp(-10 * (similarity - 0.5))) in
\* millionths, rounded to the nearest, at the similarities the model's
\* vectors have (0, 3/5, 4/5, 1 and their negatives)
enhance_score(similarity) ==
    CASE similarity * 5 = 5 * SimScale -> 993307
      [] similarity * 5 = 4 * SimScale -> 952574
      [] similarity * 5 = 3 * SimScale -> 731059
      [] similarity = 0 -> 6693
      [] similarity * 5 = -3 * SimScale -> 17
      [] similarity * 5 = -4 * SimScale -> 2
      [] similarity * 5 = -5 * SimScale -> 0

\* RerankService._calculate_combined_score, in ten-millionths
calculate_combined_score(vector_score, rerank_score) ==
    3 * vector_score + 7 * rerank_score

\* doc.get("content", "")
ContentOf(doc) == IF "content" \in DOMAIN doc THEN doc.content ELSE <<>>

\* doc.get("vector_score", 0.0)
VectorScoreOf(doc) == IF "vector_score" \in DOMAIN doc THEN doc.vector_score ELSE 0

\* RerankService._call_rerank_api: responses[1] is the gateway's answer to the
\* request for the query, responses[j + 1] its answer to the request for
\* texts[j].  The result is the list of scores, <<>> when the query has no
\* embedding or when an exception was caught.
CallRerankApi(query, texts, responses) ==
    LET query_embedding == embed_query(query, responses[1])
        text_embedding(j) == embed_query(texts[j], responses[j + 1])
        asked(j) == Len(Strip(texts[j])) # 0
        raises == \E j \in 1..Len(texts) :
                     /\ asked(j) /\ text_embedding(j) # <<>>
                     /\ SimilarityRaises(query_embedding, text_embedding(j))
    IN IF query_embedding = <<>> \/ raises THEN <<>>
       ELSE [j \in 1..Len(texts) |->
               IF ~asked(j) \/ text_embedding(j) = <<>> THEN 0
               ELSE enhance_score(calculate_similarity(query_embedding,
                                                       text_embedding(j)))]

\* the key of reranked_docs.sort, in ten-millionths
RerankSortKey(x) ==
    IF "combined_score" \in DOMAIN x THEN x.combined_score
    ELSE IF "rerank_score" \in DOMAIN x THEN 10 * x.rerank_score
    ELSE 10 * VectorScoreOf(x)

\* doc_copy with rerank_score and combined_score
Scored(doc, rerank_score) ==
    [k \in DOMAIN doc \cup {"rerank_score", "combined_score"} |->
        IF k = "rerank_score" THEN rerank_score
        ELSE IF k = "combined_score"
             THEN calculate_combined_score(VectorScoreOf(doc), rerank_score)
             ELSE doc[k]]

\* reranked_docs.sort(key=..., reverse=True): <<key, position>> pairs sorted as
\* the similarities of search are
RerankOrder(reranked_docs) ==
    SortDesc([j \in 1..Len(reranked_docs) |-> <<RerankSortKey(reranked_docs[j]), j>>])

\* RerankService.rerank_documents
RerankDocuments(query, docs, top_k, api_key, ENABLE_RERANK, responses) ==
    IF docs = <<>> THEN <<>>
    ELSE IF api_key = "" \/ ~ENABLE_RERANK THEN TopKOrAll(docs, top_k)
    ELSE LET texts == [j \in 1..Len(docs) |-> ContentOf(docs[j])]
             rerank_scores == CallRerankApi(query, texts, responses)
             reranked_docs ==
                 [j \in 1..Len(docs) |->
                     IF j <= Len(rerank_scores) THEN Scored(docs[j], rerank_scores[j])
                     ELSE docs[j]]
             order == RerankOrder(reranked_docs)
         IN IF rerank_scores = <<>> THEN TopKOrAll(docs, top_k)
            ELSE TopKOrAll([j \in 1..Len(order) |-> reranked_docs[order[j][2]]], top_k)

\* longest candidate list handed to rerank_documents
MaxCands == 2

\* the candidates: search results with their content and vector_score (in
\* millionths); two of equal vector_score, one whose content is blank and one
\* that carries its text under another key, as the chunks of split_documents do
Candidates ==
    { [chunk_id |-> ChunkId("d1", 0), content |-> <<"a">>, vector_score |-> 800000],
      [chunk_id |-> ChunkId("d1", 1), content |-> <<"b">>, vector_score |-> 800000],
      [chunk_id |-> ChunkId("d1", 2), content |-> <<" ">>, vector_score |-> 600000],
      [chunk_id |-> ChunkId("d1", 3), text |-> <<"a">>, vector_score |-> 1000000] }

\* the lists of up to n candidates of different chunk_id
CandidateLists(n) ==
    { docs \in UNION { [1..m -> Candidates] : m \in 0..n } :
         \A i, j \in 1..Len(docs) : i # j => docs[i].chunk_id # docs[j].chunk_id }

\* the top_k arguments of rerank_documents
RerankTopKs == { NoTopK } \cup { TopK(n) : n \in 0..(MaxCands + 1) }

\* the answers of the gateway to the request for one text
OneTextAnswers ==
    { ClientError, Answer(<<Item(<<1, 0>>)>>), Answer(<<Item(<<3, 4>>)>>),
      Answer(<<Item(<<1>>)>>) }

\* the index no call has touched
EmptyIndex ==
    /\ documents = <<>>
    /\ embeddings = <<>>
    /\ doc_id_to_index = EmptyDict
    /\ initialized = FALSE
    /\ disk = NoFile

\* a call of rerank_documents about to be made: its arguments, the
\* configuration and the answers the gateway will give
InitRerank ==
    /\ EmptyIndex
    /\ \E docs \in CandidateLists(MaxCands), top_k \in RerankTopKs,
          api_key \in {"", "sk"}, ENABLE_RERANK \in BOOLEAN,
          responses \in [1..(MaxCands + 1) -> OneTextAnswers] :
          last = Call("call rerank_documents",
                      [query |-> <<"q">>, documents |-> docs, top_k |-> top_k,
                       api_key |-> api_key, ENABLE_RERANK |-> ENABLE_RERANK,
                       responses |-> responses],
                      <<>>)

\* RerankService.rerank_documents
rerank_documents ==
    /\ last.op = "call rerank_documents"
    /\ last' = Call("rerank_documents", last.arg,
                    RerankDocuments(last.arg.query, last.arg.documents,
                                    last.arg.top_k, last.arg.api_key,
                                    last.arg.ENABLE_RERANK, last.arg.responses))
    /\ UNCHANGED <<documents, embeddings, doc_id_to_index, initialized, disk>>

NextRerank == rerank_documents

SpecRerank == InitRerank /\ [][NextRerank]_vars

(***************************************************************************)
(* Properties of rank fusion.                                              *)
(***************************************************************************)
\* the first top_n candidates, all of them when top_n is not given
FirstN(docs, top_n) == IF top_n.given THEN SliceTo(docs, top_n.value) ELSE docs

\* the scores the secondary scorer returned to the call that has returned
ScoresOfCall ==
    CallRerankApi(last.arg.query,
                  [j \in 1..Len(last.arg.documents) |-> ContentOf(last.arg.documents[j])],
                  last.arg.responses)

\* the secondary scorer was asked: it is enabled and has an API key
ScorerAsked == last.arg.api_key # "" /\ last.arg.ENABLE_RERANK

\* C11: when the secondary scorer is disabled, has no API key, or returns no
\* scores, rerank_documents returns the input candidates in their order,
\* truncated to top_n (all when top_n is not given), none of them changed.
C11_ScorerOffPassthrough ==
    last.op = "rerank_documents" /\ (~ScorerAsked \/ ScoresOfCall = <<>>)
        => last.ret = FirstN(last.arg.documents, last.arg.top_k)

\* C12: when the secondary scorer returns one score per candidate, the result
\* is the candidates, each with combined_score = 0.3 x vector_score + 0.7 x
\* rerank_score, in order of non-increasing combined_score, equal scores in
\* candidate order, truncated to top_n (all when top_n is not given), and
\* every field of a candidate is as it was handed in.
C12_CombinedOrder ==
    LET docs == last.arg.documents
        scores == ScoresOfCall
        combined(p) == 3 * VectorScoreOf(docs[p]) + 7 * scores[p]
        before(q, p) == \/ combined(q) > combined(p)
                        \/ combined(q) = combined(p) /\ q < p
        rank(p) == 1 + Cardinality({ q \in 1..Len(docs) : before(q, p) })
    IN (/\ last.op = "rerank_documents" /\ ScorerAsked /\ docs # <<>>
        /\ Len(scores) = Len(docs))
       => /\ Len(last.ret) = Len(FirstN(docs, last.arg.top_k))
          /\ \A p \in 1..Len(docs) :
                rank(p) <= Len(last.ret) =>
                   /\ last.ret[rank(p)].combined_score = combined(p)
                   /\ \A k \in DOMAIN docs[p] : last.ret[rank(p)][k] = docs[p][k]

\* the request for the text of candidate j failed
TextRequestFailed(j) ==
    /\ Len(Strip(ContentOf(last.arg.documents[j]))) # 0
    /\ EmbedBatchRaises(last.arg.responses[j + 1])

\* C13: when the request for the query succeeds and the request for the text
\* of some candidates fails, all candidates are returned, each candidate whose
\* request failed ranked with exactly 0.3 x its vector_score and every other
\* with 0.3 x vector_score + 0.7 x rerank_score.
C13_PartialFailure ==
    LET docs == last.arg.documents
        entry(j) == CHOOSE x \in { last.ret[i] : i \in 1..Len(last.ret) } :
                        x.chunk_id = docs[j].chunk_id
    IN (/\ last.op = "rerank_documents" /\ ScorerAsked /\ ~last.arg.top_k.given
        /\ ~EmbedBatchRaises(last.arg.responses[1])
        /\ \E n \in 1..Len(docs) : TextRequestFailed(n))
       => /\ Len(last.ret) = Len(docs)
          /\ \A j \in 1..Len(docs) :
                /\ \E i \in 1..Len(last.ret) : last.ret[i].chunk_id = docs[j].chunk_id
                /\ TextRequestFailed(j) =>
                      RerankSortKey(entry(j)) = 3 * VectorScoreOf(docs[j])

(***************************************************************************)
(* DocumentProcessor: the chunker.                                         *)
(***************************************************************************)
\* content.split('\n')
RECURSIVE SplitLines(_)
SplitLines(s) ==
    IF \A k \in 1..Len(s) : s[k] # "\n" THEN <<s>>
    ELSE LET k == CHOOSE n \in 1..Len(s) :
                     s[n] = "\n" /\ \A m \in 1..(n - 1) : s[m] # "\n"
         IN <<SubSeq(s, 1, k - 1)>> \o SplitLines(SubSeq(s, k + 1, Len(s)))

\* '\n'.join(lines)
RECURSIVE JoinLines(_)
JoinLines(lines) ==
    IF lines = <<>> THEN <<>>
    ELSE IF Len(lines) = 1 THEN lines[1]
    ELSE lines[1] \o <<"\n">> \o JoinLines(Tail(lines))

\* sum(len(l) + 1 for l in lines)
RECURSIVE SizeOf(_)
SizeOf(lines) == IF lines = <<>> THEN 0 ELSE Len(lines[1]) + 1 + SizeOf(Tail(lines))

\* the number of characters at the start of s that are in the set cs
RECURSIVE LeadingIn(_, _)
LeadingIn(s, cs) ==
    IF s # <<>> /\ Head(s) \in cs THEN 1 + LeadingIn(Tail(s), cs) ELSE 0

Digits == { "1", "2" }

\* re.match(r'^#{1,6}\s+', line_stripped)
IsHeading(line_stripped) ==
    LET n == LeadingIn(line_stripped, {"#"})
    IN n >= 1 /\ Len(line_stripped) > n /\
       \E m \in 1..(IF n < 6 THEN n ELSE 6) : line_stripped[m + 1] \in Whitespace

\* re.match(r'^\|.*\|\s*$', s) or re.match(r'^\s*[-|:]+\s*$', s) on a stripped
\* line (on one line . matches every character)
IsTable(line_stripped) ==
    \/ Len(line_stripped) >= 2 /\ line_stripped[1] = "|"
          /\ line_stripped[Len(line_stripped)] = "|"
    \/ line_stripped # <<>> /\ \A k \in 1..Len(line_stripped) :
                                  line_stripped[k] \in {"-", "|", ":"}

\* re.match(r'^\s*[-*+]\s+', s) or re.match(r'^\s*\d+\.\s+', s) on a stripped line
IsListItem(line_stripped) ==
    \/ Len(line_stripped) >= 2 /\ line_stripped[1] \in {"-", "*", "+"}
          /\ line_stripped[2] \in Whitespace
    \/ LET n == LeadingIn(line_stripped, Digits)
       IN n >= 1 /\ Len(line_stripped) >= n + 2 /\ line_stripped[n + 1] = "."
             /\ line_stripped[n + 2] \in Whitespace

\* DocumentProcessor._detect_structure; the fixed titles it gives table rows
\* and list items are held as one letter
detect_structure(line) ==
    LET line_stripped == Strip(line)
        level == LeadingIn(line_stripped, {"#"})
    IN IF IsHeading(line_stripped)
       THEN [type |-> "heading", level |-> level,
             title |-> LStrip(SubSeq(line_stripped, level + 1, Len(line_stripped))),
             is_major_break |-> level <= 3]
       ELSE IF IsTable(line_stripped)
       THEN [type |-> "table", level |-> 0, title |-> <<"t">>, is_major_break |-> FALSE]
       ELSE IF IsListItem(line_stripped)
       THEN [type |-> "list", level |-> 0, title |-> <<"l">>, is_major_break |-> FALSE]
       ELSE IF line_stripped = <<>>
       THEN [type |-> "empty", level |-> 0, title |-> <<>>, is_major_break |-> FALSE]
       ELSE [type |-> "text", level |-> 0, title |-> <<>>, is_major_break |-> FALSE]

SentenceEnd == { ".", "!", "?" }

\* re.match(r'^\s*[-*+\d]', s) on a stripped line
StartsListLike(line_stripped) ==
    line_stripped # <<>> /\ line_stripped[1] \in {"-", "*", "+"} \cup Digits

\* the loop of _find_split_point from line i (0-based) on
RECURSIVE FindSplitFrom(_, _, _, _, _)
FindSplitFrom(lines, target_size, i, size, best_split) ==
    IF i >= Len(lines) THEN best_split
    ELSE LET line == lines[i + 1]
             current_size == size + Len(line) + 1
             line_stripped == Strip(line)
             best ==
                 IF i > 0 /\ Strip(lines[i]) = <<>> /\ line_stripped # <<>> THEN i
                 ELSE IF line_stripped # <<>>
                         /\ line_stripped[Len(line_stripped)] \in SentenceEnd
                 THEN i + 1
                 ELSE IF i < Len(lines) - 1 /\ StartsListLike(line_stripped)
                         /\ ~StartsListLike(Strip(lines[i + 2]))
                 THEN i + 1
                 ELSE best_split
         IN IF current_size > target_size THEN best_split
            ELSE FindSplitFrom(lines, target_size, i + 1, current_size, best)

\* DocumentProcessor._find_split_point
find_split_point(lines, target_size) == FindSplitFrom(lines, target_size, 0, 0, 0)

\* the loop of _calculate_overlap_lines, from line i (0-based) backwards
RECURSIVE OverlapFrom(_, _, _, _, _)
OverlapFrom(lines, target_overlap, i, overlap_size, overlap_lines) ==
    IF i < 0 THEN overlap_lines
    ELSE LET line_size == Len(lines[i + 1]) + 1
         IN IF overlap_size + line_size <= target_overlap
            THEN OverlapFrom(lines, target_overlap, i - 1,
                             overlap_size + line_size, overlap_lines + 1)
            ELSE overlap_lines

\* an overlap that takes every line, whatever the budget
calculate_overlap_lines_all(lines, target_overlap) == Len(lines)

\* DocumentProcessor._calculate_overlap_lines
calculate_overlap_lines(lines, target_overlap) ==
    OverlapFrom(lines, target_overlap, Len(lines) - 1, 0, 0)

\* section_info.get(key, default)
InfoGet(section_info, key, default) ==
    IF key \in DOMAIN section_info THEN section_info[key] ELSE default

\* chunks that all carry the index 0
create_chunk_index_zero(text, doc_id, metadata, chunk_index, section_info, line_count) ==
    [chunk_id |-> ChunkId(doc_id, 0),
     text |-> text,
     metadata |-> [filename |-> metadata.filename, doc_id |-> doc_id,
                   chunk_index |-> 0, chunk_size |-> Len(text),
                   line_count |-> line_count,
                   section_level |-> InfoGet(section_info, "level", 0),
                   section_title |-> InfoGet(section_info, "title", <<>>),
                   chunk_type |-> InfoGet(section_info, "type", "text")]]

\* DocumentProcessor._create_chunk
create_chunk(text, doc_id, metadata, chunk_index, section_info, line_count) ==
    [chunk_id |-> ChunkId(doc_id, chunk_index),
     text |-> text,
     metadata |-> [filename |-> metadata.filename,
                   doc_id |-> doc_id,
                   chunk_index |-> chunk_index,
                   chunk_size |-> Len(text),
                   line_count |-> line_count,
                   section_level |-> InfoGet(section_info, "level", 0),
                   section_title |-> InfoGet(section_info, "title", <<>>),
                   chunk_type |-> InfoGet(section_info, "type", "text")]]

\* chunks with the chunk made of the lines, if its text is not blank
Emit(st, lines, doc_id, metadata) ==
    LET chunk_text == Strip(JoinLines(lines))
    IN IF chunk_text # <<>>
       THEN [st EXCEPT
               !.chunks = Append(@, create_chunk(chunk_text, doc_id, metadata,
                                                 st.chunk_index,
                                                 st.current_section_info, Len(lines))),
               !.chunk_index = @ + 1]
       ELSE st

\* the overlap alone: the lines behind the split point are lost
CarriedLines_overlap_only(current_chunk, split_point, chunk_overlap) ==
    LET back == calculate_overlap_lines(SubSeq(current_chunk, 1, split_point),
                                        chunk_overlap)
        overlap_start == IF split_point - back > 0 THEN split_point - back ELSE 0
    IN SubSeq(current_chunk, overlap_start + 1, split_point)

\* current_chunk[overlap_start:]: the lines a split at split_point carries
\* into the next chunk, the overlap and the lines behind the split point
CarriedLines(current_chunk, split_point, chunk_overlap) ==
    LET back == calculate_overlap_lines(SubSeq(current_chunk, 1, split_point),
                                        chunk_overlap)
        overlap_start == IF split_point - back > 0 THEN split_point - back ELSE 0
    IN SubSeq(current_chunk, overlap_start + 1, Len(current_chunk))

\* one round of the loop of _structure_aware_split, on the line given.  The
\* test current_size > chunk_size * 0.3 is made on integers: for every chunk
\* size up to 2000 the floating-point product compares with an integer size
\* as the exact product does
SplitStep(st, line, doc_id, metadata, chunk_size, chunk_overlap) ==
    LET line_size == Len(line) + 1
        structure_info == detect_structure(line)
    IN IF structure_info.is_major_break /\ st.current_chunk # <<>>
          /\ st.current_size * 10 > chunk_size * 3
       THEN [Emit(st, st.current_chunk, doc_id, metadata) EXCEPT
               !.current_chunk = <<line>>,
               !.current_size = line_size,
               !.current_section_info = structure_info]
       ELSE IF st.current_size + line_size > chunk_size /\ st.current_chunk # <<>>
       THEN LET split_point == find_split_point(st.current_chunk, chunk_size)
            IN IF split_point > 0
               THEN LET head == SubSeq(st.current_chunk, 1, split_point)
                        rest == CarriedLines(st.current_chunk, split_point,
                                             chunk_overlap) \o <<line>>
                    IN [Emit(st, head, doc_id, metadata) EXCEPT
                          !.current_chunk = rest,
                          !.current_size = SizeOf(rest)]
               ELSE [Emit(st, st.current_chunk, doc_id, metadata) EXCEPT
                       !.current_chunk = <<line>>,
                       !.current_size = line_size]
       ELSE [st EXCEPT
               !.current_chunk = Append(@, line),
               !.current_size = @ + line_size,
               !.current_section_info =
                   IF structure_info.level > 0 THEN structure_info ELSE @]

\* the loop of _structure_aware_split from line i (0-based) on
RECURSIVE SplitLoop(_, _, _, _, _, _, _)
SplitLoop(st, lines, i, doc_id, metadata, chunk_size, chunk_overlap) ==
    IF i >= Len(lines) THEN st
    ELSE SplitLoop(SplitStep(st, lines[i + 1], doc_id, metadata, chunk_size,
                             chunk_overlap),
                   lines, i + 1, doc_id, metadata, chunk_size, chunk_overlap)

\* DocumentProcessor._structure_aware_split
structure_aware_split(content, doc_id, metadata, chunk_size, chunk_overlap) ==
    LET start == [chunks |-> <<>>, chunk_index |-> 0, current_chunk |-> <<>>,
                  current_size |-> 0,
                  current_section_info |-> [level |-> 0, title |-> <<>>]]
        st == SplitLoop(start, SplitLines(content), 0, doc_id, metadata,
                        chunk_size, chunk_overlap)
    IN IF st.current_chunk # <<>>
       THEN Emit(st, st.current_chunk, doc_id, metadata).chunks
       ELSE st.chunks

\* DocumentProcessor._split_single_document
split_single_document(document, chunk_size, chunk_overlap) ==
    LET content == document.content
        doc_id == document.doc_id
    IN IF Len(content) <= chunk_size
       THEN << [chunk_id |-> ChunkId(doc_id, 0),
                text |-> content,
                metadata |-> [filename |-> document.metadata.filename,
                              doc_id |-> doc_id,
                              chunk_index |-> 0,
                              chunk_count |-> 1,
                              chunk_size |-> Len(content),
                              chunk_type |-> "complete_document"]] >>
       ELSE LET chunks == structure_aware_split(content, doc_id, document.metadata,
                                                chunk_size, chunk_overlap)
            IN [j \in 1..Len(chunks) |->
                   [chunks[j] EXCEPT
                      !.metadata = DictSet(@, "chunk_count", Len(chunks))]]

\* DocumentProcessor.split_documents
RECURSIVE SplitDocuments(_, _, _)
SplitDocuments(docs, chunk_size, chunk_overlap) ==
    IF docs = <<>> THEN <<>>
    ELSE split_single_document(docs[1], chunk_size, chunk_overlap)
            \o SplitDocuments(Tail(docs), chunk_size, chunk_overlap)

\* most lines of a document
MaxLines == 4

\* the lines documents are made of: an empty line, plain text, a sentence, a
\* heading, a list item, text behind a blank, and a line longer than a chunk
Lines ==
    { <<>>, <<"a", "a">>, <<"a", ".">>, <<"#", " ", "h">>, <<"-", " ", "a">>,
      <<" ", "a">>, <<"a", "a", "a", "a", "a", "a", "a", "a", "a">> }

\* the contents of documents: up to MaxLines lines joined by newlines
Contents == { JoinLines(lines) : lines \in UNION { [1..m -> Lines] : m \in 1..MaxLines } }

\* config.CHUNK_SIZE and config.CHUNK_OVERLAP: an overlap is smaller than the
\* chunk size (Config.validate)
ChunkParams == { <<5, 0>>, <<5, 4>>, <<8, 0>>, <<8, 4>> }

\* a call of split_documents about to be made
InitChunker ==
    /\ EmptyIndex
    /\ \E content \in Contents, params \in ChunkParams :
          last = Call("call split_documents",
                      [documents |-> << [doc_id |-> "d1", content |-> content,
                                         metadata |-> [filename |-> "f"]] >>,
                       chunk_size |-> params[1], chunk_overlap |-> params[2]],
                      <<>>)

\* DocumentProcessor.split_documents
split_documents ==
    /\ last.op = "call split_documents"
    /\ last' = Call("split_documents", last.arg,
                    SplitDocuments(last.arg.documents, last.arg.chunk_size,
                                   last.arg.chunk_overlap))
    /\ UNCHANGED <<documents, embeddings, doc_id_to_index, initialized, disk>>

NextChunker == split_documents

SpecChunker == InitChunker /\ [][NextChunker]_vars

(***************************************************************************)
(* Properties of the chunker.                                              *)
(***************************************************************************)
\* the content of the document of the call
ContentOfCall == last.arg.documents[1].content

\* C14: for a document with len(content) <= chunk_size the chunker returns
\* exactly one chunk, with chunk_index 0, chunk_count 1 and type
\* complete_document, whose text is the content stripped of leading and
\* trailing whitespace.
C14_SmallDocumentOneChunk ==
    last.op = "split_documents" /\ Len(ContentOfCall) <= last.arg.chunk_size
       => /\ Len(last.ret) = 1
          /\ last.ret[1].metadata.chunk_index = 0
          /\ last.ret[1].metadata.chunk_count = 1
          /\ last.ret[1].metadata.chunk_type = "complete_document"
          /\ last.ret[1].text = Strip(ContentOfCall)

\* C15: for empty or whitespace-only content the chunker returns no chunk, and
\* for every other content the text of every chunk holds a character that is
\* not whitespace.
C15_NoEmptyChunk ==
    last.op = "split_documents"
       => /\ Strip(ContentOfCall) = <<>> => last.ret = <<>>
          /\ \A j \in 1..Len(last.ret) : Strip(last.ret[j].text) # <<>>

\* the spans of lines (first, last) whose joined and stripped text is text
SpansOf(lines, text) ==
    { sp \in (1..Len(lines)) \X (1..Len(lines)) :
         sp[1] <= sp[2] /\ Strip(JoinLines(SubSeq(lines, sp[1], sp[2]))) = text }

\* the chunks from the k-th on are spans of the lines that start no earlier
\* than the span before them (prev), leave no line that is not blank between
\* them and the span before them, and with the lines covered so far cover
\* every line that is not blank
RECURSIVE CoverChain(_, _, _, _, _)
CoverChain(lines, chunks, k, prev, covered) ==
    IF k > Len(chunks)
    THEN \A i \in 1..Len(lines) : Strip(lines[i]) # <<>> => i \in covered
    ELSE \E sp \in SpansOf(lines, chunks[k].text) :
            /\ sp[1] >= prev[1]
            /\ \A i \in (prev[2] + 1)..(sp[1] - 1) : Strip(lines[i]) = <<>>
            /\ CoverChain(lines, chunks, k + 1, sp, covered \cup (sp[1]..sp[2]))

\* C16: when the chunker splits a document into more than one chunk, the
\* chunks are spans of the document's lines in document order, no line that is
\* not blank lies between two consecutive chunks, and every line that is not
\* blank is in at least one chunk.
C16_ChunksCoverDocument ==
    last.op = "split_documents" /\ Len(last.ret) > 1
       => CoverChain(SplitLines(ContentOfCall), last.ret, 1, <<1, 0>>, {})

\* C16 happens: a document of lines that all differ is split into three
\* chunks or more, two consecutive ones sharing a line (the overlap) and the
\* second going on behind it
C16_Witness ==
    /\ last.op = "split_documents" /\ Len(last.ret) >= 3
    /\ last.arg.chunk_overlap > 0
    /\ LET lines == SplitLines(ContentOfCall)
       IN \A i, j \in 1..Len(lines) : i # j => lines[i] # lines[j]
    /\ \E k \in 1..(Len(last.ret) - 1) :
          LET this == SplitLines(last.ret[k].text)
              next == SplitLines(last.ret[k + 1].text)
          IN /\ this[Len(this)] = next[1]
             /\ Len(next) >= 2

(***************************************************************************)
(* EmbeddingService.embed_texts, one round of its loop at a time.  While   *)
(* the call runs, last.ret holds the position i of the loop, the vectors   *)
(* gathered so far and the answers the gateway has given so far.           *)
(***************************************************************************)
\* most texts handed to embed_texts
MaxTexts == 3

\* the texts of a call: n texts that all differ
TextsOf(n) == [j \in 1..n |-> <<"t", ToString(j)>>]

\* the batch_size arguments of the model (the default is 10)
BatchSizes == { 1, 2 }

\* the items of an answer
AnswerItems == { Item(<<1, 0>>), Item(<<0, 1>>), NoEmbeddingItem }

\* the answers of the gateway to the request for a batch: a failure, or a body
\* with one item per text of the batch, in their order
BatchAnswers(batch) ==
    { ClientError, ApiError, Malformed }
    \cup { Answer(items) : items \in [1..Len(batch) -> AnswerItems] }

\* texts[i:i + batch_size]
BatchAt(texts, i, batch_size) ==
    SubSeq(texts, i + 1, IF i + batch_size < Len(texts) THEN i + batch_size
                          ELSE Len(texts))

\* a call of embed_texts has been made and is about to enter its loop
InitEmbed ==
    /\ EmptyIndex
    /\ \E n \in 0..MaxTexts, batch_size \in BatchSizes :
          last = Call("embed_texts: loop",
                      [texts |-> TextsOf(n), batch_size |-> batch_size],
                      [i |-> 0, all_embeddings |-> <<>>, responses |-> <<>>])

\* one round of the loop of embed_texts: the request for the batch at i
embed_texts_batch ==
    /\ last.op = "embed_texts: loop"
    /\ last.ret.i < Len(last.arg.texts)
    /\ LET batch == BatchAt(last.arg.texts, last.ret.i, last.arg.batch_size)
       IN \E response \in BatchAnswers(batch) :
             last' = [last EXCEPT
                        !.ret.i = @ + last.arg.batch_size,
                        !.ret.all_embeddings = @ \o BatchEmbeddings(batch, response),
                        !.ret.responses = Append(@, response)]
    /\ UNCHANGED <<documents, embeddings, doc_id_to_index, initialized, disk>>

\* embed_texts returns all_embeddings when the loop is over
embed_texts_return ==
    /\ last.op = "embed_texts: loop"
    /\ last.ret.i >= Len(last.arg.texts)
    /\ last' = [last EXCEPT !.op = "embed_texts"]
    /\ UNCHANGED <<documents, embeddings, doc_id_to_index, initialized, disk>>

NextEmbed == embed_texts_batch \/ embed_texts_return

SpecEmbed == InitEmbed /\ [][NextEmbed]_vars

Raised(exception) == [raised |-> exception, results |-> <<>>, processed |-> 0]

Returned(results) == [raised |-> "", results |-> results, processed |-> 0]

\* the attributes Config.__init__ sets
ConfigAttributes ==
    { "API_HOST", "API_PORT", "DASHSCOPE_API_KEY", "DASHSCOPE_BASE_URL",
      "EMBEDDING_MODEL", "EMBEDDING_DIMENSIONS", "RERANK_MODEL", "CHUNK_SIZE",
      "CHUNK_OVERLAP", "TOP_K", "RERANK_TOP_N", "ENABLE_RERANK", "DATABASE_URL",
      "DB_HOST", "DB_PORT", "DB_USER", "DB_PASSWORD", "DB_NAME",
      "DOCUMENTS_PATH", "DOCUMENT_STORAGE_PATH", "TEMP_STORAGE_PATH",
      "INDEX_PATH", "VECTOR_INDEX_PATH", "LOG_LEVEL", "LOG_FILE",
      "LOG_MAX_SIZE", "LOG_BACKUP_COUNT" }

\* config.TOP_K, at its default
TOP_K == 5

\* the enable_rerank argument of RAGService.search: None, or a bool
NoFlag == [given |-> FALSE]

Flag(b) == [given |-> TRUE, value |-> b]

\* a result of VectorStore.search as the dict it is: the copy of the record
\* with its vector_score, here in millionths as the rank fusion reads it
ResultDoc(result) ==
    [k \in DOMAIN result.doc \cup {"vector_score"} |->
        IF k = "vector_score" THEN result.vector_score * (1000000 \div SimScale)
        ELSE result.doc[k]]

ResultDocs(found) == [j \in 1..Len(found) |-> ResultDoc(found[j])]

\* the body of RAGService.search on an index holding docs, embs and the flag
\* init.  query_response is the gateway's answer to the request for the query,
\* responses its answers to the requests the rank fusion makes.
RagSearch(docs, embs, init, query, query_response, top_k, similarity_threshold, enable_rerank, cfg, responses) ==
    LET query_embedding == embed_query(query, query_response)
        found == SearchIn(docs, embs, init, query_embedding, top_k * 2,
                          similarity_threshold)
        search_results == ResultDocs(found)
        rerank == IF enable_rerank.given THEN enable_rerank.value
                  ELSE cfg.ENABLE_RERANK
    IN IF query_embedding = <<>> THEN Raised("ValueError")
       ELSE IF ~similarity_threshold.given
               /\ "SIMILARITY_THRESHOLD" \notin ConfigAttributes
       THEN \* config.SIMILARITY_THRESHOLD
            Raised("AttributeError")
       ELSE IF SearchRaises(docs, embs, init, query_embedding, top_k * 2,
                            similarity_threshold)
       THEN Raised("IndexError")
       ELSE IF rerank /\ search_results # <<>>
       THEN Returned(RerankDocuments(query, search_results, TopK(top_k),
                                     cfg.api_key, cfg.ENABLE_RERANK, responses))
       ELSE Returned(SliceTo(search_results, top_k))

\* the index as VectorStore.__init__ leaves it
AsConstructed ==
    /\ documents = <<>>
    /\ embeddings = <<>>
    /\ doc_id_to_index = EmptyDict
    /\ ~initialized

\* RAGService.search.  service_initialized is RAGService.initialized: when it
\* is false, which it is only in a process that has not touched its index yet,
\* the call runs initialize() first, and initialize() loads the snapshot file.
\* _save_search_history catches what it raises.
RAGService_search(service_initialized, query_response, top_k, similarity_threshold, enable_rerank, cfg, responses) ==
    LET new == IF service_initialized
               THEN <<documents, embeddings, doc_id_to_index, initialized>>
               ELSE Loaded(disk, documents, embeddings, doc_id_to_index,
                           initialized)
    IN /\ service_initialized \/ AsConstructed
       /\ documents' = new[1]
       /\ embeddings' = new[2]
       /\ doc_id_to_index' = new[3]
       /\ initialized' = new[4]
       /\ last' = Call("RAGService.search",
                       [query_response |-> query_response, top_k |-> top_k,
                        similarity_threshold |-> similarity_threshold,
                        enable_rerank |-> enable_rerank],
                       RagSearch(new[1], new[2], new[4], <<"q">>, query_response,
                                 top_k, similarity_threshold, enable_rerank,
                                 cfg, responses))
       /\ UNCHANGED disk

\* the keys the search endpoint reads from a result with doc[...]
RowKeys == {"text", "metadata"}

\* SearchResult(text=doc["text"], metadata=doc["metadata"],
\* vector_score=doc.get("vector_score"), rank=i + 1); relevance_score is a
\* key no result carries
SearchResult(doc, j) ==
    [text |-> doc.text, metadata |-> doc.metadata,
     vector_score |-> VectorScoreOf(doc), rank |-> j]

\* the body of the search endpoint.  A request on an index that is not
\* initialized or holds no record raises HTTPException(400), which the
\* handler's except clause turns into HTTPException(500) as it does every
\* other exception.
EndpointSearch(docs, embs, init, query, query_response, top_k, use_rerank, rerank_top_n, cfg, responses) ==
    LET query_vector == embed_query(query, query_response)
        k == IF Truthy(top_k) THEN top_k.value ELSE TOP_K
        search_results == ResultDocs(SearchIn(docs, embs, init, query_vector, k, NoFloor))
        shown == IF use_rerank /\ search_results # <<>>
                 THEN RerankDocuments(query, search_results, rerank_top_n,
                                      cfg.api_key, cfg.ENABLE_RERANK, responses)
                 ELSE search_results
    IN IF ~(init /\ Len(docs) > 0) THEN Raised("HTTPException")
       ELSE IF SearchRaises(docs, embs, init, query_vector, k, NoFloor)
       THEN Raised("HTTPException")
       ELSE IF \E j \in 1..Len(shown) : ~(RowKeys \subseteq DOMAIN shown[j])
       THEN Raised("HTTPException")
       ELSE Returned([j \in 1..Len(shown) |-> SearchResult(shown[j], j)])

\* search_documents of main.py
search_documents(query_response, top_k, use_rerank, rerank_top_n, cfg, responses) ==
    /\ last' = Call("search_documents",
                    [query_response |-> query_response, top_k |-> top_k,
                     use_rerank |-> use_rerank, rerank_top_n |-> rerank_top_n],
                    EndpointSearch(documents, embeddings, initialized, <<"q">>,
                                   query_response, top_k, use_rerank,
                                   rerank_top_n, cfg, responses))
    /\ UNCHANGED <<documents, embeddings, doc_id_to_index, initialized, disk>>

\* the positional parameters DatabaseManager.save_document and
\* DatabaseManager.save_document_chunk have no default for
save_document_required == 3

save_document_chunk_required == 4

\* a call that passes fewer positional arguments than the function requires
\* raises TypeError
MissingArguments(required, given) == given < required

\* VectorStore.add_document on an index given as <<documents, embeddings,
\* doc_id_to_index, initialized>>: the index it leaves and whether it raised
Added(index, document, embedding) ==
    LET chunk_id == Key(document, Len(index[1]))
        at == index[3][chunk_id]
    IN IF chunk_id \notin DOMAIN index[3]
       THEN [index |-> <<Append(index[1], document), Append(index[2], embedding),
                         DictSet(index[3], chunk_id, Len(index[1])), TRUE>>,
             raised |-> FALSE]
       ELSE IF at >= Len(index[1]) THEN [index |-> index, raised |-> TRUE]
       ELSE IF at >= Len(index[2])
       THEN [index |-> <<SetAt(index[1], at, document), index[2], index[3], index[4]>>,
             raised |-> TRUE]
       ELSE [index |-> <<SetAt(index[1], at, document),
                         SetAt(index[2], at, embedding), index[3], TRUE>>,
             raised |-> FALSE]

\* chunk["embedding"] = embedding
WithEmbedding(chunk, embedding) ==
    [k \in DOMAIN chunk \cup {"embedding"} |->
        IF k = "embedding" THEN embedding ELSE chunk[k]]

\* the loop of _add_document_internal over the chunks, from chunk j on:
\* responses[j] is the gateway's answer to the request for chunk j; the index
\* the loop leaves and the length of saved_chunks.  An exception raised for a
\* chunk is caught and the loop goes on with the next chunk.
RECURSIVE IngestLoop(_, _, _, _, _)
IngestLoop(chunks, responses, j, index, saved) ==
    IF j > Len(chunks) THEN [index |-> index, saved |-> saved]
    ELSE LET embedding == embed_query(chunks[j].content, responses[j])
             added == Added(index, WithEmbedding(chunks[j], embedding), embedding)
         IN IF embedding = <<>>
            THEN IngestLoop(chunks, responses, j + 1, index, saved)
            ELSE IF MissingArguments(save_document_chunk_required, 1)
            THEN \* self.db_manager.save_document_chunk(chunk)
                 IngestLoop(chunks, responses, j + 1, index, saved)
            ELSE IF added.raised
            THEN IngestLoop(chunks, responses, j + 1, added.index, saved)
            ELSE IngestLoop(chunks, responses, j + 1, added.index, saved + 1)

\* RAGService._add_document_internal
RAGService_add_document_internal(document, responses) ==
    LET start == <<documents, embeddings, doc_id_to_index, initialized>>
        \* self.db_manager.save_document(document)
        raises == MissingArguments(save_document_required, 1)
        done == IngestLoop(document.chunks, responses, 1, start, 0)
        new == IF raises THEN start ELSE done.index
    IN /\ documents' = new[1]
       /\ embeddings' = new[2]
       /\ doc_id_to_index' = new[3]
       /\ initialized' = new[4]
       /\ disk' = IF ~raises /\ done.saved > 0
                  THEN SavedFile(disk, new[1], new[2], new[3], new[4])
                  ELSE disk
       /\ last' = Call("RAGService._add_document_internal", document,
                       IF raises THEN Raised("TypeError")
                       ELSE [raised |-> "", results |-> <<>>,
                             processed |-> done.saved])

\* the records of this specification: a chunk as process_text makes it, with
\* its text under content, and a chunk as split_documents makes it, with its
\* text under text and a metadata dict
RagChunk(doc_id, chunk_index, content) ==
    [chunk_id |-> ChunkId(doc_id, chunk_index), doc_id |-> doc_id,
     content |-> content]

RagInputs ==
    { <<RagChunk("d1", 0, <<"a">>), <<1, 0>>>>,
      <<[chunk_id |-> ChunkId("d1", 1), text |-> <<"b">>,
         metadata |-> [doc_id |-> "d1"]], <<0, 1>>>> }

\* the documents handed to _add_document_internal: one chunk, or two
RagDocuments ==
    { [doc_id |-> "d1", chunks |-> <<RagChunk("d1", 0, <<"a">>)>>],
      [doc_id |-> "d1",
       chunks |-> <<RagChunk("d1", 0, <<"a">>), RagChunk("d1", 1, <<"b">>)>>] }

\* the answers of the gateway to the request for the query or for one chunk:
\* a failure, a vector, and a body that holds no vector
RagAnswers == { ClientError, Answer(<<Item(<<1, 0>>)>>), Answer(<<>>) }

\* the scorer at one call: its configuration (a key is set, the scorer is
\* switched on or off) and the answers of the gateway to the requests of the
\* rank fusion: all of them vectors, all of them failures, and a failure for
\* the first candidate only
RagScorers ==
    { [api_key |-> "sk", ENABLE_RERANK |-> FALSE,
       responses |-> [j \in 1..(2 * MaxDocs + 1) |-> ClientError]],
      [api_key |-> "sk", ENABLE_RERANK |-> TRUE,
       responses |-> [j \in 1..(2 * MaxDocs + 1) |-> Answer(<<Item(<<1, 0>>)>>)]],
      [api_key |-> "sk", ENABLE_RERANK |-> TRUE,
       responses |-> [j \in 1..(2 * MaxDocs + 1) |-> ClientError]],
      [api_key |-> "sk", ENABLE_RERANK |-> TRUE,
       responses |-> [j \in 1..(2 * MaxDocs + 1) |->
                         IF j = 2 THEN ClientError ELSE Answer(<<Item(<<3, 4>>)>>)]] }

RagFloors == { NoFloor, Floor(0) }

NextRag ==
    \/ \E args \in CreateArgs(RagInputs, MaxCreate) : create_index(args[1], args[2])
    \/ save_index
    \/ VectorStore_init
    \/ \E service_initialized \in BOOLEAN, query_response \in RagAnswers,
          top_k \in 1..MaxDocs, similarity_threshold \in RagFloors,
          enable_rerank \in {NoFlag, Flag(FALSE)}, scorer \in RagScorers :
          RAGService_search(service_initialized, query_response, top_k,
                            similarity_threshold, enable_rerank, scorer,
                            scorer.responses)
    \/ \E query_response \in RagAnswers, top_k \in {NoTopK, TopK(1)},
          use_rerank \in BOOLEAN, rerank_top_n \in {NoTopK, TopK(1)},
          scorer \in RagScorers :
          search_documents(query_response, top_k, use_rerank, rerank_top_n,
                           scorer, scorer.responses)
    \/ \E document \in RagDocuments,
          responses \in [1..MaxDocs -> RagAnswers] :
          RAGService_add_document_internal(document, responses)

SpecRag == Init /\ [][NextRag]_vars

(***************************************************************************)
(* Properties of the query and ingest paths.                               *)
(***************************************************************************)
\* the calls of the query path
QueryCalls == {"RAGService.search", "search_documents"}

\* C18: a query call on an index that holds records, for whose query text the
\* gateway's request failed, ends with an error: it returns no result list,
\* which could only have been computed from the zero vector put in the query
\* vector's place.
C18_QueryFailureSurfaces ==
    (/\ last.op \in QueryCalls
     /\ EmbedBatchRaises(last.arg.query_response)
     /\ documents # <<>>)
    => last.ret.raised # ""

\* C19: a query call on an index that holds no record ends with an error,
\* which a caller can tell apart from a search that returned zero results.
C19_NotInitializedReported ==
    (last.op \in QueryCalls /\ documents = <<>>)
    => last.ret.raised # ""

\* C20: an ingest call returns; every chunk of its document is then in the
\* index under its chunk_id, at the position the lookup gives, with a vector of
\* the index; and when it reports a processed chunk, loading the snapshot file
\* into a new index yields the records, vectors and lookup held in memory.
C20_IngestUpsertsAndPersists ==
    last.op = "RAGService._add_document_internal"
    => /\ last.ret.raised = ""
       /\ \A j \in 1..Len(last.arg.chunks) :
             LET chunk_id == last.arg.chunks[j].chunk_id
             IN /\ chunk_id \in DOMAIN doc_id_to_index
                /\ doc_id_to_index[chunk_id] < Len(documents)
                /\ doc_id_to_index[chunk_id] < Len(embeddings)
                /\ documents[doc_id_to_index[chunk_id] + 1].chunk_id = chunk_id
       /\ last.ret.processed > 0
          => Loaded(disk, <<>>, <<>>, EmptyDict, FALSE)
                = <<documents, embeddings, doc_id_to_index, initialized>>

(***************************************************************************)
(* Properties of the lookup.                                               *)
(***************************************************************************)
\* every chunk_id of the lookup maps to a position of the index that holds
\* the record with that chunk_id, and no two of them to the same position
LookupConsistent ==
    /\ \A k \in DOMAIN doc_id_to_index :
          /\ doc_id_to_index[k] \in 0..(Len(documents) - 1)
          /\ ChunkIdOf(documents[doc_id_to_index[k] + 1]) = k
    /\ \A k1, k2 \in DOMAIN doc_id_to_index :
          k1 # k2 => doc_id_to_index[k1] # doc_id_to_index[k2]

\* a delete_document that removed the record at position p leaves the records
\* and vectors before p where they were, moves those behind p down by one,
\* removes the id from the lookup and rewrites the entries of the records moved
DeleteCompacts ==
    (last'.op = "delete_document" /\ last'.ret = "True")
    => LET p == doc_id_to_index[last'.arg]
       IN /\ Len(documents') = Len(documents) - 1
          /\ Len(embeddings') = Len(embeddings) - 1
          /\ \A i \in 0..(Len(documents) - 1) :
                /\ i < p => /\ documents'[i + 1] = documents[i + 1]
                            /\ embeddings'[i + 1] = embeddings[i + 1]
                /\ i > p => /\ documents'[i] = documents[i + 1]
                            /\ embeddings'[i] = embeddings[i + 1]
          /\ DOMAIN doc_id_to_index' = DOMAIN doc_id_to_index \ {last'.arg}
          /\ \A k \in DOMAIN doc_id_to_index' :
                doc_id_to_index'[k] =
                   IF doc_id_to_index[k] > p THEN doc_id_to_index[k] - 1
                   ELSE doc_id_to_index[k]

\* C22: in every state reached by create_index, add_document and
\* delete_document the lookup is consistent with the records, and a
\* delete_document of the record at position p moves every record behind p
\* down by one, in their order, with its lookup entry, leaving no gap.
C22_LookupConsistent == []LookupConsistent /\ [][DeleteCompacts]_vars

\* C22 happens: delete_document has removed the first chunk of a document and
\* the second chunk is now the only record, at position 0
C22_Witness ==
    /\ last.op = "delete_document" /\ last.ret = "True"
    /\ last.arg = ChunkId("d1", 0)
    /\ Len(documents) = 1
    /\ ChunkId("d1", 1) \in DOMAIN doc_id_to_index
    /\ doc_id_to_index[ChunkId("d1", 1)] = 0

(***************************************************************************)
(* Properties of search without a floor.                                   *)
(***************************************************************************)
\* C23: for every query vector and k >= 0, search without a similarity floor
\* returns min(k, count) results: no record is left out for its similarity,
\* a negative one included.
C23_NoFloorNoExclusion ==
    \A q \in Queries, k \in TopKs :
        Len(search(q, k, NoFloor))
           = IF k < Len(documents) THEN k ELSE Len(documents)

(***************************************************************************)
(* Properties of the chunks of a split document.                           *)
(***************************************************************************)
\* C24: for a document longer than chunk_size, every chunk has at most
\* chunk_size characters, but for a chunk that is one line which is itself
\* longer than chunk_size.
C24_ChunkWithinSize ==
    last.op = "split_documents" /\ Len(ContentOfCall) > last.arg.chunk_size
       => \A j \in 1..Len(last.ret) :
             \/ Len(last.ret[j].text) <= last.arg.chunk_size
             \/ Len(SplitLines(last.ret[j].text)) = 1

(***************************************************************************)
(* _structure_aware_split round by round: last.ret holds the position i of *)
(* the loop and its variables, and the chunks once the call has returned.  *)
(***************************************************************************)
\* chunk sizes and overlaps of the calls followed round by round
SplitParams == { <<5, 4>>, <<8, 4>>, <<10, 0>> }

\* the lines of the content of the call
LinesOfCall == SplitLines(last.arg.content)

\* a call of _structure_aware_split that has entered its loop:
\* _split_single_document makes it for content longer than chunk_size
InitSplit ==
    /\ EmptyIndex
    /\ \E content \in Contents, params \in SplitParams :
          /\ Len(content) > params[1]
          /\ last = Call("_structure_aware_split",
                         [content |-> content, chunk_size |-> params[1],
                          chunk_overlap |-> params[2]],
                         [i |-> 0, returned |-> FALSE,
                          st |-> [chunks |-> <<>>, chunk_index |-> 0,
                                  current_chunk |-> <<>>, current_size |-> 0,
                                  current_section_info |->
                                      [level |-> 0, title |-> <<>>]]])

\* one round of the loop: the line at position i
split_round ==
    /\ last.op = "_structure_aware_split" /\ ~last.ret.returned
    /\ last.ret.i < Len(LinesOfCall)
    /\ last' = [last EXCEPT
                  !.ret.st = SplitStep(@, LinesOfCall[last.ret.i + 1], "d1",
                                       [filename |-> "f"], last.arg.chunk_size,
                                       last.arg.chunk_overlap),
                  !.ret.i = @ + 1]
    /\ UNCHANGED <<documents, embeddings, doc_id_to_index, initialized, disk>>

\* the end of the loop: the last chunk, and the return
split_return ==
    /\ last.op = "_structure_aware_split" /\ ~last.ret.returned
    /\ last.ret.i >= Len(LinesOfCall)
    /\ last' = [last EXCEPT
                  !.ret.st = IF @.current_chunk # <<>>
                             THEN Emit(@, @.current_chunk, "d1", [filename |-> "f"])
                             ELSE @,
                  !.ret.returned = TRUE]
    /\ UNCHANGED <<documents, embeddings, doc_id_to_index, initialized, disk>>

NextSplit == split_round \/ split_return

SpecSplit == InitSplit /\ [][NextSplit]_vars

(***************************************************************************)
(* Properties of the rounds of _structure_aware_split.                     *)
(***************************************************************************)
\* the loop is about to make a round
InRound ==
    /\ last.op = "_structure_aware_split" /\ ~last.ret.returned
    /\ last.ret.i < Len(LinesOfCall)

\* the line of the round, and the loop's variables before it
LineOfRound == LinesOfCall[last.ret.i + 1]

\* the round takes the branch of the major break
MajorBreakRound ==
    /\ InRound
    /\ detect_structure(LineOfRound).is_major_break
    /\ last.ret.st.current_chunk # <<>>
    /\ last.ret.st.current_size * 10 > last.arg.chunk_size * 3

\* the round takes the branch of the size overflow
OverflowRound ==
    /\ InRound /\ ~MajorBreakRound
    /\ last.ret.st.current_size + Len(LineOfRound) + 1 > last.arg.chunk_size
    /\ last.ret.st.current_chunk # <<>>

\* the split point of an overflow round
SplitPointOfRound == find_split_point(last.ret.st.current_chunk, last.arg.chunk_size)

\* a round that splits at a favourable point leaves as the new chunk: n lines
\* that end at the split point, of a size within chunk_overlap; the lines
\* behind the split point; and the line of the round
CarriesWithinOverlap ==
    (OverflowRound /\ SplitPointOfRound > 0)
    => LET cc == last.ret.st.current_chunk
           sp == SplitPointOfRound
       IN \E n \in 0..sp :
             /\ last'.ret.st.current_chunk
                   = SubSeq(cc, sp - n + 1, Len(cc)) \o <<LineOfRound>>
             /\ SizeOf(SubSeq(cc, sp - n + 1, sp)) <= last.arg.chunk_overlap

\* C25: after a split at a favourable point the lines carried from the lines
\* just emitted into the next chunk are the last lines before the split point,
\* without a gap, and their sizes (length plus one each) add up to
\* chunk_overlap at most.
C25_CarriedWithinOverlap == [][CarriesWithinOverlap]_vars

\* C25 happens: with an overlap set, a chunk has been emitted and the chunk
\* being built starts with the last line of the emitted one and goes on with
\* other lines of a document whose lines all differ
C25_Witness ==
    /\ last.op = "_structure_aware_split" /\ last.arg.chunk_overlap > 0
    /\ \A i, j \in 1..Len(LinesOfCall) : i # j => LinesOfCall[i] # LinesOfCall[j]
    /\ last.ret.st.chunks # <<>>
    /\ Len(last.ret.st.current_chunk) >= 2
    /\ LET emitted == SplitLines(last.ret.st.chunks[Len(last.ret.st.chunks)].text)
       IN emitted[Len(emitted)] = last.ret.st.current_chunk[1]

\* a round on a heading of level 1 to 3: with an accumulated size of 30% of
\* chunk_size or more the accumulated lines are emitted as a chunk and the
\* new chunk is the heading, which is the new section context; with less, and
\* no size overflow, no chunk is emitted
HeadingBreaks ==
    (/\ InRound
     /\ detect_structure(LineOfRound).type = "heading"
     /\ detect_structure(LineOfRound).level \in 1..3)
    => LET st == last.ret.st
           new == last'.ret.st
       IN IF st.current_size * 10 >= last.arg.chunk_size * 3
          THEN /\ Len(new.chunks) = Len(st.chunks) + 1
               /\ new.chunks[Len(new.chunks)].text = Strip(JoinLines(st.current_chunk))
               /\ SubSeq(new.chunks, 1, Len(st.chunks)) = st.chunks
               /\ new.current_chunk = <<LineOfRound>>
               /\ new.current_section_info = detect_structure(LineOfRound)
          ELSE st.current_size + Len(LineOfRound) + 1 <= last.arg.chunk_size
                  => new.chunks = st.chunks

\* C26: when the chunker reaches a heading of level 1 to 3 and the accumulated
\* size is at least 30% of chunk_size, exactly 30% included, it emits the
\* accumulated lines as a chunk and starts a new chunk with the heading as
\* first line and section context; below 30% the heading emits no chunk.
C26_HeadingBreak == [][HeadingBreaks]_vars

\* the lines of a chunk that fit in target_size, counted from its start
FitIn(lines, target_size) ==
    { i \in 0..(Len(lines) - 1) : SizeOf(SubSeq(lines, 1, i + 1)) <= target_size }

\* the split points of the three kinds among the lines that fit: before a
\* line that is not blank and follows a blank line; behind a line that ends a
\* sentence; behind a list item that no list item follows
ParagraphSplits(lines, target_size) ==
    { i \in FitIn(lines, target_size) :
         i > 0 /\ Strip(lines[i]) = <<>> /\ Strip(lines[i + 1]) # <<>> }

SentenceSplits(lines, target_size) ==
    { i + 1 : i \in { n \in FitIn(lines, target_size) :
                         /\ Strip(lines[n + 1]) # <<>>
                         /\ Strip(lines[n + 1])[Len(Strip(lines[n + 1]))] \in SentenceEnd } }

ListSplits(lines, target_size) ==
    { i + 1 : i \in { n \in FitIn(lines, target_size) :
                         /\ n < Len(lines) - 1
                         /\ StartsListLike(Strip(lines[n + 1]))
                         /\ ~StartsListLike(Strip(lines[n + 2])) } }

\* the split point is of the kind of highest priority that has a point, and
\* it is 0 when no kind has one
SplitByPriority(lines, target_size) ==
    LET split_point == find_split_point(lines, target_size)
    IN IF ParagraphSplits(lines, target_size) # {}
       THEN split_point \in ParagraphSplits(lines, target_size)
       ELSE IF SentenceSplits(lines, target_size) # {}
       THEN split_point \in SentenceSplits(lines, target_size)
       ELSE IF ListSplits(lines, target_size) # {}
       THEN split_point \in ListSplits(lines, target_size)
       ELSE split_point = 0

\* C27: at a size overflow _find_split_point returns a paragraph boundary if
\* the accumulated lines that fit in chunk_size have one, otherwise a split
\* behind a sentence-ending line, otherwise the end of a list item that no
\* list item follows, and 0 only when there is none of the three.
C27_SplitPriority ==
    OverflowRound => SplitByPriority(last.ret.st.current_chunk, last.arg.chunk_size)

(***************************************************************************)
(* Properties of the numbering of chunks.                                  *)
(***************************************************************************)
\* C28: the N chunks of a document carry the chunk_index values 0 .. N-1 in
\* order, the chunk_ids <doc_id>_chunk_<index>, which differ from one another,
\* and the chunk_count N.
C28_ChunkNumbering ==
    last.op = "split_documents"
       => /\ \A j \in 1..Len(last.ret) :
                /\ last.ret[j].metadata.chunk_index = j - 1
                /\ last.ret[j].chunk_id
                      = last.arg.documents[1].doc_id \o "_chunk_" \o ToString(j - 1)
                /\ last.ret[j].metadata.chunk_count = Len(last.ret)
          /\ \A j, k \in 1..Len(last.ret) :
                j # k => last.ret[j].chunk_id # last.ret[k].chunk_id

\* C28 happens: a document has been split into three chunks or more, a split
\* at a favourable point among them (two consecutive chunks share a line)
C28_Witness ==
    /\ last.op = "split_documents" /\ Len(last.ret) >= 3
    /\ \E k \in 1..(Len(last.ret) - 1) :
          LET this == SplitLines(last.ret[k].text)
              next == SplitLines(last.ret[k + 1].text)
          IN this[Len(this)] = next[1] /\ Len(next) >= 2 /\ Len(this) >= 2

(***************************************************************************)
(* Properties of the progress of the chunker.                              *)
(***************************************************************************)
\* the chunks from the k-th on are spans of the lines, each starting at a line
\* behind the line at which the chunk before it started (prev_start)
RECURSIVE ProgressChain(_, _, _, _)
ProgressChain(lines, chunks, k, prev_start) ==
    IF k > Len(chunks) THEN TRUE
    ELSE \E sp \in SpansOf(lines, chunks[k].text) :
            /\ sp[1] > prev_start
            /\ ProgressChain(lines, chunks, k + 1, sp[1])

\* C29: the chunks of a split document start at lines of the document that
\* grow strictly from chunk to chunk, there are no more chunks than lines, and
\* in a document whose lines all differ no two chunks have the same text.
C29_SplitProgress ==
    last.op = "split_documents" /\ Len(ContentOfCall) > last.arg.chunk_size
       => LET lines == SplitLines(ContentOfCall)
          IN /\ ProgressChain(lines, last.ret, 1, 0)
             /\ Len(last.ret) <= Len(lines)
             /\ (\A i, j \in 1..Len(lines) : i # j => lines[i] # lines[j])
                   => \A j, k \in 1..Len(last.ret) :
                         j # k => last.ret[j].text # last.ret[k].text

(***************************************************************************)
(* The orchestrator on the event loop.  The methods of RAGService are      *)
(* coroutines of one asyncio loop and take no lock: a call runs from one   *)
(* await that suspends it to the next without any other call running in    *)
(* between.  The awaits that suspend are the requests to the embedding     *)
(* gateway (test_connection, get_embedding); the methods of                *)
(* DatabaseManager are coroutines over a synchronous sqlite3 connection    *)
(* and return without suspending.  A request that ends without suspending  *)
(* is the schedule in which the same call is resumed at once.              *)
(*                                                                         *)
(* In this specification last holds the statement executed last (op), the  *)
(* call that executed it (arg) and, in ret, the calls in flight with their *)
(* positions, the call that holds the loop (0: none),                      *)
(* RAGService.initialized and the rows of the table document_chunks.       *)
(***************************************************************************)
\* the calls of the orchestrator in flight at once
Tasks == {1, 2}

\* the methods DatabaseManager defines
DatabaseMethods ==
    { "initialize", "_create_tables", "save_document", "save_document_chunk",
      "get_document",
      "get_document_chunks", "list_documents", "delete_document",
      "save_search_history", "get_search_stats", "close" }

\* a call at its first statement
NewTask(op, first, arg) ==
    [op |-> op, pc |-> first, arg |-> arg, j |-> 1, saved |-> 0,
     mutated |-> FALSE, chunks |-> <<>>, documents |-> <<>>,
     embeddings |-> <<>>, raised |-> ""]

\* a slot no call has used yet
Idle == NewTask("", "idle", <<>>)

\* the call has returned (raised = "") or raised; its locals are gone
Ended(task, raised) == [NewTask(task.op, "done", <<>>) EXCEPT !.raised = raised]

\* what one statement of a call leaves: the index, the snapshot file,
\* RAGService.initialized and the table (s), the call's own position and
\* locals (task), and whether the call is suspended or over (release)
Eff(s, task, release) == [s |-> s, task |-> task, release |-> release]

\* the index after VectorStore.delete_index
Emptied == <<<<>>, <<>>, EmptyDict, FALSE>>

\* VectorStore.delete_document on an index given as <<documents, embeddings,
\* doc_id_to_index, initialized>>: the index it leaves and how it ends
Deleted(index, doc_id) ==
    LET at == index[3][doc_id] IN
    IF doc_id \notin DOMAIN index[3] THEN [index |-> index, ret |-> "False"]
    ELSE IF at >= Len(index[1]) THEN [index |-> index, ret |-> "IndexError"]
    ELSE IF at >= Len(index[2])
    THEN [index |-> <<DelAt(index[1], at), index[2], index[3], index[4]>>,
          ret |-> "IndexError"]
    ELSE [index |-> <<DelAt(index[1], at), DelAt(index[2], at),
                      ShiftDown(DictDel(index[3], doc_id), at), index[4]>>,
          ret |-> "True"]

\* INSERT OR REPLACE INTO document_chunks: the row of the same chunk_id is
\* replaced by a new row
Upserted(rows, row) ==
    Append(SelectSeq(rows, LAMBDA r : r.chunk_id # row.chunk_id), row)

\* DELETE FROM document_chunks WHERE doc_id = ?
RowsWithout(rows, doc_id) == SelectSeq(rows, LAMBDA r : r.doc_id # doc_id)

\* RAGService.delete_document, statement by statement
delete_document_step(task, s) ==
    LET found == Deleted(s.index, task.arg.doc_id) IN
    CASE task.pc = "db_manager.delete_document" ->
           Eff([s EXCEPT !.repository = RowsWithout(@, task.arg.doc_id)],
               [task EXCEPT !.pc = "vector_store.delete_document"], FALSE)
      [] task.pc = "vector_store.delete_document" ->
           IF found.ret = "True"
           THEN Eff([s EXCEPT !.index = found.index],
                    [task EXCEPT !.pc = "vector_store.save_index",
                                 !.mutated = TRUE], FALSE)
           ELSE Eff([s EXCEPT !.index = found.index],
                    Ended(task, IF found.ret = "False" THEN "" ELSE found.ret),
                    TRUE)
      [] task.pc = "vector_store.save_index" ->
           Eff([s EXCEPT !.disk = SavedFile(@, s.index[1], s.index[2],
                                            s.index[3], s.index[4])],
               Ended(task, ""), TRUE)

\* RAGService.search with enable_rerank=False, statement by statement;
\* initialize() is suspended at test_connection before it loads the snapshot
search_step(task, s) ==
    LET query_embedding == embed_query(<<"q">>, task.arg.query_response)
        outcome == RagSearch(s.index[1], s.index[2], s.index[4], <<"q">>,
                             task.arg.query_response, 1,
                             task.arg.similarity_threshold, Flag(FALSE),
                             [api_key |-> "sk", ENABLE_RERANK |-> FALSE], <<>>)
    IN
    CASE task.pc = "if not self.initialized" ->
           IF ~s.service_initialized
           THEN Eff(s, [task EXCEPT !.pc = "vector_store.load_index"], TRUE)
           ELSE Eff(s, [task EXCEPT !.pc = "get_embedding"], FALSE)
      [] task.pc = "vector_store.load_index" ->
           Eff([s EXCEPT !.index = Loaded(s.disk, @[1], @[2], @[3], @[4]),
                         !.service_initialized = TRUE],
               [task EXCEPT !.pc = "get_embedding"], FALSE)
      [] task.pc = "get_embedding" ->
           Eff(s, [task EXCEPT !.pc = "query_embedding"], TRUE)
      [] task.pc = "query_embedding" ->
           IF query_embedding = <<>> THEN Eff(s, Ended(task, "ValueError"), TRUE)
           ELSE IF ~task.arg.similarity_threshold.given
                   /\ "SIMILARITY_THRESHOLD" \notin ConfigAttributes
           THEN Eff(s, Ended(task, "AttributeError"), TRUE)
           ELSE Eff(s, [task EXCEPT !.pc = "vector_store.search"], FALSE)
      [] task.pc = "vector_store.search" ->
           Eff(s, Ended(task, outcome.raised), TRUE)

\* RAGService._add_document_internal, statement by statement
add_document_internal_step(task, s) ==
    LET chunks == task.arg.document.chunks
        chunk == chunks[task.j]
        embedding == embed_query(chunk.content, task.arg.responses[task.j])
        added == Added(s.index, WithEmbedding(chunk, embedding), embedding)
        next == [task EXCEPT !.pc = "for chunk", !.j = @ + 1]
    IN
    CASE task.pc = "db_manager.save_document" ->
           IF MissingArguments(save_document_required, 1)
           THEN Eff(s, Ended(task, "TypeError"), TRUE)
           ELSE Eff(s, [task EXCEPT !.pc = "for chunk"], FALSE)
      [] task.pc = "for chunk" ->
           IF task.j <= Len(chunks)
           THEN Eff(s, [task EXCEPT !.pc = "embedding"], TRUE)
           ELSE IF task.saved > 0
           THEN Eff(s, [task EXCEPT !.pc = "vector_store.save_index"], FALSE)
           ELSE Eff(s, Ended(task, ""), TRUE)
      [] task.pc = "embedding" ->
           IF embedding = <<>> THEN Eff(s, next, FALSE)
           ELSE IF MissingArguments(save_document_chunk_required, 1)
           THEN Eff(s, next, FALSE)
           ELSE Eff([s EXCEPT !.repository =
                                 Upserted(@, WithEmbedding(chunk, embedding))],
                    [task EXCEPT !.pc = "vector_store.add_document"], FALSE)
      [] task.pc = "vector_store.add_document" ->
           Eff([s EXCEPT !.index = added.index],
               IF added.raised THEN [next EXCEPT !.mutated = TRUE]
               ELSE [next EXCEPT !.mutated = TRUE, !.saved = @ + 1], FALSE)
      [] task.pc = "vector_store.save_index" ->
           Eff([s EXCEPT !.disk = SavedFile(@, s.index[1], s.index[2],
                                            s.index[3], s.index[4])],
               Ended(task, ""), TRUE)

\* RAGService.rebuild_index, statement by statement
rebuild_index_step(task, s) ==
    LET chunk == task.chunks[task.j]
        embedding == embed_query(chunk.content, task.arg.responses[task.j])
    IN
    CASE task.pc = "vector_store.delete_index" ->
           Eff([s EXCEPT !.index = Emptied, !.disk = NoFile],
               [task EXCEPT !.pc = "db_manager.get_all_document_chunks",
                            !.mutated = TRUE], FALSE)
      [] task.pc = "db_manager.get_all_document_chunks" ->
           IF "get_all_document_chunks" \notin DatabaseMethods
           THEN Eff(s, Ended(task, "AttributeError"), TRUE)
           ELSE IF s.repository = <<>> THEN Eff(s, Ended(task, ""), TRUE)
           ELSE Eff(s, [task EXCEPT !.pc = "for chunk",
                                    !.chunks = s.repository], FALSE)
      [] task.pc = "for chunk" ->
           IF task.j <= Len(task.chunks)
           THEN Eff(s, [task EXCEPT !.pc = "embedding"], TRUE)
           ELSE IF task.documents # <<>> /\ task.embeddings # <<>>
           THEN Eff(s, [task EXCEPT !.pc = "vector_store.create_index"], FALSE)
           ELSE Eff(s, Ended(task, ""), TRUE)
      [] task.pc = "embedding" ->
           IF embedding = <<>>
           THEN Eff(s, [task EXCEPT !.pc = "for chunk", !.j = @ + 1], FALSE)
           ELSE Eff(s, [task EXCEPT !.pc = "for chunk", !.j = @ + 1,
                                    !.documents = Append(@, chunk),
                                    !.embeddings = Append(@, embedding)], FALSE)
      [] task.pc = "vector_store.create_index" ->
           Eff([s EXCEPT !.index = <<task.documents, task.embeddings,
                                     BuildMap(task.documents, 0, EmptyDict),
                                     TRUE>>],
               [task EXCEPT !.pc = "vector_store.save_index"], FALSE)
      [] task.pc = "vector_store.save_index" ->
           Eff([s EXCEPT !.disk = SavedFile(@, s.index[1], s.index[2],
                                            s.index[3], s.index[4])],
               Ended(task, ""), TRUE)

\* RAGService.clear_all_data, statement by statement
clear_all_data_step(task, s) ==
    CASE task.pc = "db_manager.clear_all_data" ->
           IF "clear_all_data" \notin DatabaseMethods
           THEN Eff(s, Ended(task, "AttributeError"), TRUE)
           ELSE Eff([s EXCEPT !.repository = <<>>],
                    [task EXCEPT !.pc = "vector_store.delete_index"], FALSE)
      [] task.pc = "vector_store.delete_index" ->
           Eff([s EXCEPT !.index = Emptied, !.disk = NoFile],
               Ended(task, ""), TRUE)

\* the index, the file, the flag and the table as the statements see them
Here ==
    [index |-> <<documents, embeddings, doc_id_to_index, initialized>>,
     disk |-> disk, service_initialized |-> last.ret.service_initialized,
     repository |-> last.ret.repository]

\* the state a statement of call t leaves
Executed(t, effect) ==
    /\ documents' = effect.s.index[1]
    /\ embeddings' = effect.s.index[2]
    /\ doc_id_to_index' = effect.s.index[3]
    /\ initialized' = effect.s.index[4]
    /\ disk' = effect.s.disk
    /\ last' = Call(last.ret.tasks[t].pc, t,
                    [tasks |-> [last.ret.tasks EXCEPT ![t] = effect.task],
                     running |-> IF effect.release THEN 0 ELSE t,
                     service_initialized |-> effect.s.service_initialized,
                     repository |-> effect.s.repository])

\* calls that run on threads: a call in flight executes its next statement
\* whatever the others are doing
Runnable_preemptive(t, op) ==
    /\ last.ret.tasks[t].op = op
    /\ last.ret.tasks[t].pc \notin {"idle", "done"}

\* call t is an op call that the loop can run: it holds the loop, or no call
\* holds it and t is at its first statement or suspended
Runnable(t, op) ==
    /\ last.ret.running \in {0, t}
    /\ last.ret.tasks[t].op = op
    /\ last.ret.tasks[t].pc \notin {"idle", "done"}

DeleteStep(t) ==
    Runnable(t, "delete") /\ Executed(t, delete_document_step(last.ret.tasks[t], Here))

SearchStep(t) ==
    Runnable(t, "search") /\ Executed(t, search_step(last.ret.tasks[t], Here))

IngestStep(t) ==
    Runnable(t, "ingest") /\ Executed(t, add_document_internal_step(last.ret.tasks[t], Here))

RebuildStep(t) ==
    Runnable(t, "rebuild") /\ Executed(t, rebuild_index_step(last.ret.tasks[t], Here))

ClearStep(t) ==
    Runnable(t, "clear") /\ Executed(t, clear_all_data_step(last.ret.tasks[t], Here))

\* the answers of the gateway to the requests for the chunks of one call:
\* vectors, and a failure for the first chunk
ChunkAnswers ==
    { [j \in 1..MaxDocs |-> Answer(<<Item(<<1, 0>>)>>)],
      [j \in 1..MaxDocs |-> IF j = 1 THEN ClientError
                            ELSE Answer(<<Item(<<1, 0>>)>>)] }

\* the calls made to the orchestrator
OrchestratorCalls ==
    { NewTask("delete", "db_manager.delete_document", [doc_id |-> doc_id]) :
         doc_id \in {"d1", ChunkId("d1", 0)} }
    \cup { NewTask("search", "if not self.initialized",
                   [query_response |-> query_response,
                    similarity_threshold |-> similarity_threshold]) :
              query_response \in RagAnswers, similarity_threshold \in RagFloors }
    \cup { NewTask("ingest", "db_manager.save_document",
                   [document |-> document, responses |-> responses]) :
              document \in RagDocuments, responses \in ChunkAnswers }
    \cup { NewTask("rebuild", "vector_store.delete_index",
                   [responses |-> responses]) : responses \in ChunkAnswers }
    \cup { NewTask("clear", "db_manager.clear_all_data", <<>>) }

\* a call is made in a slot that holds no call in flight
call(t, task) ==
    /\ last.ret.tasks[t].pc \in {"idle", "done"}
    /\ last' = Call("call", t, [last.ret EXCEPT !.tasks[t] = task])
    /\ UNCHANGED <<documents, embeddings, doc_id_to_index, initialized, disk>>

\* DatabaseManager.save_document_chunk, called with its arguments before the
\* orchestrator has been called
save_document_chunk(chunk_id, doc_id, chunk_index, content) ==
    /\ \A t \in Tasks : last.ret.tasks[t].pc = "idle"
    /\ Len(last.ret.repository) < MaxDocs
    /\ last' = Call("save_document_chunk", 0,
                    [last.ret EXCEPT !.repository =
                        Upserted(@, [chunk_id |-> chunk_id, doc_id |-> doc_id,
                                     chunk_index |-> chunk_index,
                                     content |-> content])])
    /\ UNCHANGED <<documents, embeddings, doc_id_to_index, initialized, disk>>

\* the snapshot files an earlier process has left: none, and what save_index
\* writes after create_index on one chunk and on two
LoopFiles ==
    LET first == <<RagChunk("d1", 0, <<"a">>), <<1, 0>>>>
        second == <<RagChunk("d1", 1, <<"b">>), <<0, 1>>>>
        file(pairs) == Snapshot(RecordsOf(pairs), VectorsOf(pairs),
                                BuildMap(RecordsOf(pairs), 0, EmptyDict))
    IN { NoFile, file(<<first>>), file(<<first, second>>) }

InitLoop ==
    /\ documents = <<>>
    /\ embeddings = <<>>
    /\ doc_id_to_index = EmptyDict
    /\ initialized = FALSE
    /\ disk \in LoopFiles
    /\ last = Call("__init__", 0,
                   [tasks |-> [t \in Tasks |-> Idle], running |-> 0,
                    service_initialized |-> FALSE, repository |-> <<>>])

NextLoop ==
    \/ \E t \in Tasks, task \in OrchestratorCalls : call(t, task)
    \/ \E n \in {Len(last.ret.repository)} :
          save_document_chunk(ChunkId("d1", n), "d1", n, <<"a">>)
    \/ \E t \in Tasks : DeleteStep(t)
    \/ \E t \in Tasks : SearchStep(t)
    \/ \E t \in Tasks : IngestStep(t)
    \/ \E t \in Tasks : RebuildStep(t)
    \/ \E t \in Tasks : ClearStep(t)

SpecLoop == InitLoop /\ [][NextLoop]_vars

(***************************************************************************)
(* Properties of the orchestrator on the event loop.                       *)
(***************************************************************************)
\* the statements that read or write the index or its snapshot file
IndexStatements ==
    { "vector_store.load_index", "vector_store.search",
      "vector_store.add_document", "vector_store.delete_document",
      "vector_store.create_index", "vector_store.delete_index",
      "vector_store.save_index" }

\* the call has mutated the index and has not ended: the span from its first
\* index mutation to its last mutation or save lies within
InWindow(task) == task.mutated /\ task.pc # "done"

Serialized ==
    \A t \in Tasks :
       (InWindow(last.ret.tasks[t]) /\ last'.arg # t)
          => last'.op \notin IndexStatements

\* C21: while a call of the orchestrator (ingest, delete, rebuild, clear) is
\* between its first index mutation and its last mutation or save, no other
\* call executes a statement that mutates, saves or searches the index.
C21_Serialized == [][Serialized]_vars

\* a delete has removed a record and not yet saved, while a search that has
\* loaded the index is suspended at the request for its query vector
C21_Witness ==
    /\ last.op = "vector_store.delete_document"
    /\ \E t, u \in Tasks :
          /\ t # u
          /\ last.ret.tasks[t].op = "delete"
          /\ InWindow(last.ret.tasks[t])
          /\ last.ret.tasks[u].op = "search"
          /\ last.ret.tasks[u].pc = "query_embedding"

\* the chunk_ids of a list of records or rows
IdsOf(rows) == { ChunkIdOf(rows[i]) : i \in 1..Len(rows) }

\* C30: once a rebuild_index call and the ingest calls made with it have
\* ended, the index and the saved snapshot hold exactly the chunks of the
\* table document_chunks.
C30_RebuildKeepsChunks ==
    (/\ last.op \in {"db_manager.save_document",
                     "db_manager.get_all_document_chunks"} \cup IndexStatements
     /\ \A t \in Tasks : /\ last.ret.tasks[t].pc = "done"
                         /\ last.ret.tasks[t].op \in {"rebuild", "ingest"}
     /\ \E t \in Tasks : last.ret.tasks[t].op = "rebuild"
     /\ \E t \in Tasks : last.ret.tasks[t].op = "ingest")
    => /\ IdsOf(documents) = IdsOf(last.ret.repository)
       /\ IdsOf(disk.documents) = IdsOf(last.ret.repository)

====
